---- MODULE Spec2Model ----
(***************************************************************************)
(* Verification model of taskflow-pro's background-job and cache layer.    *)
(*                                                                         *)
(* Part I  (SpecQueue): the five Bull queues declared by the queue manager *)
(*   (src/unnamed/part_001), their named processors, the QueueManager add  *)
(*   methods and the job life cycle produced by the job options            *)
(*   (attempts: 3, exponential backoff of 2000 ms, removeOnComplete: 10,   *)
(*   removeOnFail: 5).  The queue manager only configures the `bull`       *)
(*   package; the life cycle below is the one that package implements for  *)
(*   this configuration.                                                   *)
(* Part II (SpecCM): the CacheManager operations (src/src/utils/cache.js)  *)
(*   called directly, with a Redis client that may fail at any command.    *)
(* Part III (SpecCache): the request handlers of the project, auth and     *)
(*   task controllers over the store and the cache, one request at a time. *)
(***************************************************************************)
EXTENDS Integers, Sequences, FiniteSets, TLC

\* ------------------------------------------------------------------ bounds
MaxJobs == 2

\* Half seconds an access token lives.
MaxLife == 3

\* Jobs added one after the other where the retained history is examined.
MaxHistory == 11

\* ------------------------------------------------------- program constants
Attempts == 3
BackoffBase == 2000
RemoveOnComplete == 10
RemoveOnFail == 5

\* The clock advances in steps of one base delay.
TickMs == BackoffBase

VARIABLES nextId, job, wait, active, delayed, completed, failed, worker,
          lastAdd

qvars == <<nextId, job, wait, active, delayed, completed, failed, worker,
           lastAdd>>

\* Cache side: the Redis connection and contents, the last direct
\* CacheManager call, the store's rows and the request being handled.
VARIABLES redisUp, cache, lastCall, projects, members, tasks, users, req

cvars == <<redisUp, cache, lastCall, projects, members, tasks, users, req>>

\* The queue monitor: the getQueueStats call in progress and its result;
\* the setIfNotExists calls in progress; the process and its signal handlers.
VARIABLES mon, nx, sig, clock

mvars == <<mon, nx, sig, clock>>

vars == <<qvars, cvars, mvars>>

\* ------------------------------------------------------------ declarations

\* queue.process(name, concurrency, handler) registrations, in source order.
Registrations ==
  { [queue |-> "email",          name |-> "send-welcome-email",       concurrency |-> 5],
    [queue |-> "email",          name |-> "send-notification-email",  concurrency |-> 3],
    [queue |-> "notifications",  name |-> "send-push-notification",   concurrency |-> 10],
    [queue |-> "notifications",  name |-> "send-in-app-notification", concurrency |-> 15],
    [queue |-> "fileProcessing", name |-> "process-uploaded-file",    concurrency |-> 2],
    [queue |-> "fileProcessing", name |-> "cleanup-temp-files",       concurrency |-> 1],
    [queue |-> "analytics",      name |-> "generate-project-stats",   concurrency |-> 1],
    [queue |-> "analytics",      name |-> "updateTaskStats",          concurrency |-> 1],
    [queue |-> "analytics",      name |-> "updateProjectStats",       concurrency |-> 1],
    [queue |-> "analytics",      name |-> "trackTaskView",            concurrency |-> 1],
    [queue |-> "cleanup",        name |-> "cleanup-expired-sessions", concurrency |-> 1],
    [queue |-> "cleanup",        name |-> "cleanup-task-data",        concurrency |-> 1],
    [queue |-> "notifications",  name |-> "send-task-notification",   concurrency |-> 5] }

\* The queues created at module load.
QueueNames == {"email", "notifications", "fileProcessing", "analytics", "cleanup"}

JobNames == {r.name : r \in Registrations}

\* The concurrency number given to a name's process registration.
RegisteredConcurrency(n) == (CHOOSE r \in Registrations : r.name = n).concurrency

\* The names that have a handler on queue q.
HandlerNames(q) == {r.name : r \in {x \in Registrations : x.queue = q}}

RECURSIVE SumConcurrency(_)
SumConcurrency(rs) ==
  IF rs = {} THEN 0
  ELSE LET r == CHOOSE x \in rs : TRUE
       IN  r.concurrency + SumConcurrency(rs \ {r})

\* Every process() call starts `concurrency` more job-fetching loops on its
\* queue; a loop takes the next waiting job whatever its name and looks the
\* handler up by the job's name afterwards.
TotalConcurrency(q) == SumConcurrency({r \in Registrations : r.queue = q})

Workers(q) == 1 .. TotalConcurrency(q)

\* QueueManager add methods: where each one adds its job.  addJob switches
\* on the job type; an unknown type throws and adds nothing.
AddCalls ==
  { "addWelcomeEmailJob", "addNotificationEmailJob", "addPushNotificationJob",
    "addInAppNotificationJob", "addFileProcessingJob", "addFileCleanupJob",
    "addAnalyticsJob", "addJob:updateTaskStats", "addJob:updateProjectStats",
    "addJob:trackTaskView", "addJob:sendTaskNotification",
    "addJob:cleanupTaskData", "addJob:other", "addSessionCleanupJob" }

NoTarget == [queue |-> "none", name |-> "none"]

\* Variant: addJob('cleanupTaskData') adds its job to the analytics queue.
AddTargetMisrouted(call) ==
  IF call = "addJob:cleanupTaskData"
  THEN [queue |-> "analytics", name |-> "cleanup-task-data"]
  ELSE NoTarget

AddTarget(call) ==
  CASE call = "addWelcomeEmailJob"          -> [queue |-> "email",          name |-> "send-welcome-email"]
    [] call = "addNotificationEmailJob"     -> [queue |-> "email",          name |-> "send-notification-email"]
    [] call = "addPushNotificationJob"      -> [queue |-> "notifications",  name |-> "send-push-notification"]
    [] call = "addInAppNotificationJob"     -> [queue |-> "notifications",  name |-> "send-in-app-notification"]
    [] call = "addFileProcessingJob"        -> [queue |-> "fileProcessing", name |-> "process-uploaded-file"]
    [] call = "addFileCleanupJob"           -> [queue |-> "fileProcessing", name |-> "cleanup-temp-files"]
    [] call = "addAnalyticsJob"             -> [queue |-> "analytics",      name |-> "generate-project-stats"]
    [] call = "addJob:updateTaskStats"      -> [queue |-> "analytics",      name |-> "updateTaskStats"]
    [] call = "addJob:updateProjectStats"   -> [queue |-> "analytics",      name |-> "updateProjectStats"]
    [] call = "addJob:trackTaskView"        -> [queue |-> "analytics",      name |-> "trackTaskView"]
    [] call = "addJob:sendTaskNotification" -> [queue |-> "notifications",  name |-> "send-task-notification"]
    [] call = "addJob:cleanupTaskData"      -> [queue |-> "cleanup",        name |-> "cleanup-task-data"]
    [] call = "addSessionCleanupJob"        -> [queue |-> "cleanup",        name |-> "cleanup-expired-sessions"]
    [] OTHER                                -> NoTarget

\* The add calls the model issues (a small set of inputs) and their delays.
IssuedCalls == {"addJob:updateProjectStats", "addJob:cleanupTaskData", "addJob:other"}
IssuedDelays == {0, BackoffBase}

\* --------------------------------------------------------------- job data

JobIds == 1 .. MaxHistory

\* Job data: attemptsMade is the package's count of failed attempts, runs
\* counts the handler invocations, backoff is the delay computed at the last
\* failure and dueIn the time left until a delayed job is due.
NoJob == [queue |-> "none", name |-> "none", attemptsMade |-> 0, runs |-> 0,
          backoff |-> 0, dueIn |-> 0, finished |-> "no", stalled |-> 0]

Exists(j) == job[j].queue # "none"

\* The collection a job id is found in.
InWait(j)      == \E q \in QueueNames : \E i \in 1 .. Len(wait[q]) : wait[q][i] = j
InActive(j)    == \E q \in QueueNames : j \in active[q]
InDelayed(j)   == \E q \in QueueNames : j \in delayed[q]
InCompleted(j) == \E q \in QueueNames : \E i \in 1 .. Len(completed[q]) : completed[q][i] = j
InFailed(j)    == \E q \in QueueNames : \E i \in 1 .. Len(failed[q]) : failed[q][i] = j

\* job.getState(): the states a job id is in, one per collection holding it.
StatesOf(j) ==
  (IF InWait(j) THEN {"waiting"} ELSE {}) \cup
  (IF InActive(j) THEN {"active"} ELSE {}) \cup
  (IF InDelayed(j) THEN {"delayed"} ELSE {}) \cup
  (IF InCompleted(j) THEN {"completed"} ELSE {}) \cup
  (IF InFailed(j) THEN {"failed"} ELSE {})

\* How often id j occurs in the collections of all queues.
Occurrences(j) ==
  LET InSeq(s) == Cardinality({i \in 1 .. Len(s) : s[i] = j})
      PerQueue(q) == InSeq(wait[q]) + InSeq(completed[q]) + InSeq(failed[q])
                     + (IF j \in active[q] THEN 1 ELSE 0)
                     + (IF j \in delayed[q] THEN 1 ELSE 0)
  IN  PerQueue("email") + PerQueue("notifications") + PerQueue("fileProcessing")
      + PerQueue("analytics") + PerQueue("cleanup")

\* ------------------------------------------------------------ job options

\* Variant: one retry too many (<= for <).
ShouldRetryOneMore(attemptsMade) == attemptsMade <= Attempts

\* Variant: the last attempt is not granted.
ShouldRetryOneLess(attemptsMade) == attemptsMade < Attempts - 1

\* attempts: 3 -- a failed attempt is retried while fewer than `attempts`
\* attempts have been made.
ShouldRetry(attemptsMade) == attemptsMade < Attempts

RECURSIVE Pow2(_)
Pow2(n) == IF n = 0 THEN 1 ELSE 2 * Pow2(n - 1)

\* Variant: type 'fixed' for 'exponential'.
BackoffFixed(attemptsMade) == BackoffBase

\* backoff: {type: 'exponential', delay: 2000} -- the built-in exponential
\* strategy of the queue package: round((2^attemptsMade - 1) * delay).
BackoffFor(attemptsMade) == (Pow2(attemptsMade) - 1) * BackoffBase

\* removeOnComplete / removeOnFail: keep the newest `keep` ids, oldest first out.
\* Variant: nothing is ever removed from a history list.
Untrimmed(s, keep) == s

Trimmed(s, keep) == IF Len(s) > keep THEN SubSeq(s, Len(s) - keep + 1, Len(s)) ELSE s

Evicted(s, keep) == IF Len(s) > keep THEN {s[i] : i \in 1 .. Len(s) - keep} ELSE {}

\* ------------------------------------------------------------------- init

\* What the last add call gave its caller.
NoAdd == [outcome |-> "none", id |-> 0]

QueueInit ==
  /\ nextId = 1
  /\ job = [j \in JobIds |-> NoJob]
  /\ wait = [q \in QueueNames |-> <<>>]
  /\ active = [q \in QueueNames |-> {}]
  /\ delayed = [q \in QueueNames |-> {}]
  /\ completed = [q \in QueueNames |-> <<>>]
  /\ failed = [q \in QueueNames |-> <<>>]
  /\ worker = [q \in QueueNames |-> [w \in Workers(q) |-> 0]]
  /\ lastAdd = NoAdd

\* ---------------------------------------------------------------- actions

\* Variant: the call resolves without the job.
AddResultWithoutJob(id) == [outcome |-> "returned", id |-> 0]

\* `return await queue.add(...)`: the caller gets the stored job.
AddResult(id) == [outcome |-> "returned", id |-> id]

\* QueueManager.addXxxJob(..., delay) / addJob(jobType, data, delay):
\* queue.add(name, data, {delay}).  The job gets the next id; without delay
\* it is pushed on the wait list, with a delay it goes to the delayed set.
\* The call returns once the job is stored; it does not run the handler.
Add(call, d) ==
  /\ AddTarget(call) # NoTarget
  /\ LET t == AddTarget(call)
         id == nextId
     IN  /\ job' = [job EXCEPT ![id] =
                      [NoJob EXCEPT !.queue = t.queue, !.name = t.name, !.dueIn = d]]
         /\ IF d > 0
            THEN /\ delayed' = [delayed EXCEPT ![t.queue] = @ \cup {id}]
                 /\ UNCHANGED wait
            ELSE /\ wait' = [wait EXCEPT ![t.queue] = Append(@, id)]
                 /\ UNCHANGED delayed
         /\ nextId' = nextId + 1
         /\ lastAdd' = AddResult(id)
  /\ UNCHANGED <<active, completed, failed, worker, cvars, mvars>>

\* An add call among the first MaxJobs.
Enqueue(call, d) ==
  /\ nextId <= MaxJobs
  /\ Add(call, d)

\* addJob with a job type outside the switch: throws, nothing is added.
EnqueueUnknown(call) ==
  /\ AddTarget(call) = NoTarget
  /\ lastAdd' = [NoAdd EXCEPT !.outcome = "threw"]
  /\ UNCHANGED <<nextId, job, wait, active, delayed, completed, failed, worker, cvars, mvars>>

\* Variant: the id is read from the wait list but not taken off it.
WaitAfterPeek(q) == wait[q]

\* The wait list after a worker has taken its head (one atomic move of the
\* id from the wait list to the active list).
WaitAfterClaim(q) == Tail(wait[q])

\* A job-fetching loop of queue q that is idle takes the next waiting job:
\* the id moves from wait to active and the worker holds it.  The loops of a
\* queue are interchangeable; the first idle one is taken.
Claim(q, w) ==
  /\ worker[q][w] = 0
  /\ \A v \in Workers(q) : v < w => worker[q][v] # 0
  /\ wait[q] # <<>>
  /\ LET id == Head(wait[q])
     IN  /\ wait' = [wait EXCEPT ![q] = WaitAfterClaim(q)]
         /\ active' = [active EXCEPT ![q] = @ \cup {id}]
         /\ worker' = [worker EXCEPT ![q][w] = id]
         /\ job' = [job EXCEPT ![id].runs = @ + 1]
  /\ UNCHANGED <<nextId, delayed, completed, failed, lastAdd, cvars, mvars>>

\* Variant: the finished job is left on the active list.
ActiveKept(q, id) == active[q]

\* The active list after a finished job has been taken off it.
ActiveAfterFinish(q, id) == active[q] \ {id}

\* Variant: updateProjectStats adds to what the project row already holds.
StatsAccumulated(name, ps) ==
  IF name = "updateProjectStats"
  THEN [p \in DOMAIN ps |-> [ps[p] EXCEPT !.ver = @ + 1]]
  ELSE ps

\* The project rows after the handler of a job named name has run to its
\* return: every handler only logs, sleeps and returns a result object, so
\* the rows are the ones it found.
StoreAfterHandler(name, ps) == ps

\* The handler of the worker's job returned normally: active -> completed,
\* keeping the last RemoveOnComplete completed jobs.
Complete(q, w) ==
  /\ worker[q][w] # 0
  /\ LET id == worker[q][w]
         all == Append(completed[q], id)
     IN  /\ job[id].name \in HandlerNames(q)
         /\ active' = [active EXCEPT ![q] = ActiveAfterFinish(q, id)]
         /\ completed' = [completed EXCEPT ![q] = Trimmed(all, RemoveOnComplete)]
         /\ job' = [j \in JobIds |->
                      IF j \in Evicted(all, RemoveOnComplete) THEN NoJob
                      ELSE IF j = id THEN [job[j] EXCEPT !.finished = "completed"]
                      ELSE job[j]]
         /\ worker' = [worker EXCEPT ![q][w] = 0]
         /\ projects' = StoreAfterHandler(job[id].name, projects)
  /\ UNCHANGED <<nextId, wait, delayed, failed, lastAdd, redisUp, cache, lastCall,
                 members, tasks, users, req, mvars>>

\* The handler threw or rejected (or the job's name has no handler on this
\* queue): the attempt is counted; with attempts left the job is delayed by
\* the backoff, otherwise it is moved to failed, keeping the last
\* RemoveOnFail failed jobs.
Fail(q, w) ==
  /\ worker[q][w] # 0
  /\ LET id == worker[q][w]
         made == job[id].attemptsMade + 1
         all == Append(failed[q], id)
     IN  /\ active' = [active EXCEPT ![q] = ActiveAfterFinish(q, id)]
         /\ worker' = [worker EXCEPT ![q][w] = 0]
         /\ IF ShouldRetry(made)
            THEN /\ delayed' = [delayed EXCEPT ![q] = @ \cup {id}]
                 /\ job' = [job EXCEPT ![id].attemptsMade = made,
                                       ![id].backoff = BackoffFor(made),
                                       ![id].dueIn = BackoffFor(made)]
                 /\ UNCHANGED failed
            ELSE /\ failed' = [failed EXCEPT ![q] = Trimmed(all, RemoveOnFail)]
                 /\ job' = [j \in JobIds |->
                              IF j \in Evicted(all, RemoveOnFail) THEN NoJob
                              ELSE IF j = id
                                   THEN [job[j] EXCEPT !.attemptsMade = made,
                                                       !.finished = "failed"]
                              ELSE job[j]]
                 /\ UNCHANGED delayed
  /\ UNCHANGED <<nextId, wait, completed, lastAdd, cvars, mvars>>

\* A delayed job is due when its time (the add delay, or the backoff after
\* a failure) has passed.
IsDue(j) == job[j].dueIn = 0

\* A delayed job whose time has come is moved to the wait list.
Promote(q, j) ==
  /\ j \in delayed[q]
  /\ IsDue(j)
  /\ delayed' = [delayed EXCEPT ![q] = @ \ {j}]
  /\ wait' = [wait EXCEPT ![q] = Append(@, j)]
  /\ UNCHANGED <<nextId, job, active, completed, failed, worker, lastAdd, cvars, mvars>>

\* Time passes by one step for every delayed job that is not yet due.
Tick ==
  /\ \E j \in JobIds : InDelayed(j) /\ job[j].dueIn > 0
  /\ job' = [j \in JobIds |->
               IF InDelayed(j) /\ job[j].dueIn > 0
               THEN [job[j] EXCEPT !.dueIn = IF @ > TickMs THEN @ - TickMs ELSE 0]
               ELSE job[j]]
  /\ UNCHANGED <<nextId, wait, active, delayed, completed, failed, worker, lastAdd, cvars, mvars>>

NextQueue ==
  \/ \E c \in IssuedCalls, d \in IssuedDelays : Enqueue(c, d)
  \/ \E c \in IssuedCalls : EnqueueUnknown(c)
  \/ \E q \in QueueNames : \E w \in Workers(q) : Claim(q, w)
  \/ \E q \in QueueNames : \E w \in Workers(q) : Complete(q, w)
  \/ \E q \in QueueNames : \E w \in Workers(q) : Fail(q, w)
  \/ \E q \in QueueNames : \E j \in JobIds : Promote(q, j)
  \/ Tick

\* ------------------------------------------------------------- stalled jobs

\* queueOptions sets no `settings`, so Bull's default applies: a job may be
\* found stalled once; found stalled again it is failed.
MaxStalledCount == 1

\* No job-fetching loop holds the active job j: its worker died, or stopped
\* renewing the job's lock.
Orphan(j) ==
  /\ InActive(j)
  /\ \A q \in QueueNames : \A w \in Workers(q) : worker[q][w] # j

\* Variant: a stalled job is always put back.
StalledNeverTooOften(n) == FALSE

StalledTooOften(n) == n > MaxStalledCount

\* The worker holding a job dies or hangs past the lock: the job stays on
\* the active list, held by nobody.
WorkerDies(q, w) ==
  /\ worker[q][w] # 0
  /\ worker' = [worker EXCEPT ![q][w] = 0]
  /\ UNCHANGED <<nextId, job, wait, active, delayed, completed, failed, lastAdd, cvars, mvars>>

\* The stalled-job check of queue q finds the active job j without a lock
\* (the 'stalled' event is logged): the job goes back to the head of the
\* wait list, or to failed when it has stalled too often.
CheckStalled(q, j) ==
  /\ j \in active[q]
  /\ Orphan(j)
  /\ LET n == job[j].stalled + 1
         all == Append(failed[q], j)
     IN  /\ active' = [active EXCEPT ![q] = @ \ {j}]
         /\ IF StalledTooOften(n)
            THEN /\ failed' = [failed EXCEPT ![q] = Trimmed(all, RemoveOnFail)]
                 /\ job' = [i \in JobIds |->
                              IF i \in Evicted(all, RemoveOnFail) THEN NoJob
                              ELSE IF i = j
                                   THEN [job[i] EXCEPT !.stalled = n, !.finished = "failed"]
                              ELSE job[i]]
                 /\ UNCHANGED wait
            ELSE /\ wait' = [wait EXCEPT ![q] = <<j>> \o @]
                 /\ job' = [job EXCEPT ![j].stalled = n]
                 /\ UNCHANGED failed
  /\ UNCHANGED <<nextId, delayed, completed, worker, lastAdd, cvars, mvars>>

NextStall ==
  \/ NextQueue
  \/ \E q \in QueueNames : \E w \in Workers(q) : WorkerDies(q, w)
  \/ \E q \in QueueNames : \E j \in JobIds : CheckStalled(q, j)

\* The stalled-job check of a running queue runs again and again.
StallFairness == \A q \in QueueNames : \A j \in JobIds : WF_vars(CheckStalled(q, j))

\* Every add method of QueueManager is called, with and without delay.
NextAdd ==
  \/ \E c \in AddCalls, d \in IssuedDelays : Enqueue(c, d)
  \/ \E c \in AddCalls : EnqueueUnknown(c)
  \/ \E q \in QueueNames : \E w \in Workers(q) : Claim(q, w)
  \/ \E q \in QueueNames : \E w \in Workers(q) : Complete(q, w)
  \/ \E q \in QueueNames : \E w \in Workers(q) : Fail(q, w)
  \/ \E q \in QueueNames : \E j \in JobIds : Promote(q, j)
  \/ Tick

\* ------------------------------------------------------- handler outcomes

\* Variant: an exception thrown by the handler is not turned into a
\* rejection.
Unsettled(how) == how

\* Every processor is an `async (job) => {...}` function: a return
\* fulfils its promise, and an exception thrown in its body rejects the
\* promise just as a rejected promise it awaits does.
Settled(how) ==
  CASE how = "returned" -> "fulfilled"
    [] how = "threw"    -> "rejected"
    [] OTHER            -> how

\* The handler of the worker's job fails by throwing or by rejecting.
HandlerFails(q, w, how) ==
  /\ Settled(how) = "rejected"
  /\ Fail(q, w)

HandlerReturns(q, w) ==
  /\ Settled("returned") = "fulfilled"
  /\ Complete(q, w)

\* The add calls issued where handler failures are examined: two job names
\* of one queue, one of another queue, and an unknown job type.
HandledCalls ==
  {"addWelcomeEmailJob", "addNotificationEmailJob", "addJob:cleanupTaskData", "addJob:other"}

NextHandlers ==
  \/ \E c \in HandledCalls, d \in IssuedDelays : Enqueue(c, d)
  \/ \E c \in HandledCalls : EnqueueUnknown(c)
  \/ \E q \in QueueNames : \E w \in Workers(q) : Claim(q, w)
  \/ \E q \in QueueNames : \E w \in Workers(q) : HandlerReturns(q, w)
  \/ \E q \in QueueNames : \E w \in Workers(q) :
       \E how \in {"threw", "rejected"} : HandlerFails(q, w, how)
  \/ \E q \in QueueNames : \E j \in JobIds : Promote(q, j)
  \/ Tick

\* Fair scheduling: a job-fetching loop that can take a job does so, a
\* running handler returns or throws, time passes, and a delayed job that
\* is due is moved.
QueueProgress ==
  \/ \E q \in QueueNames : \E w \in Workers(q) : Claim(q, w)
  \/ \E q \in QueueNames : \E w \in Workers(q) : Complete(q, w) \/ Fail(q, w)
  \/ \E q \in QueueNames : \E j \in JobIds : Promote(q, j)
  \/ Tick

QueueFairness == WF_vars(QueueProgress)

\* ---------------------------------------------------------------- history

\* The add call issued where the retained history is examined.
HistoryCalls == {"addJob:updateProjectStats"}

\* A caller that adds its next job, without delay, once every job added
\* before has finished.
AddAfterPrevious(call) ==
  /\ nextId <= MaxHistory
  /\ \A j \in JobIds : Exists(j) => job[j].finished # "no"
  /\ Add(call, 0)

\* A handler whose outcome depends on the payload only: a job that did not
\* fail on its first run completes, one that failed fails on every retry.
CompleteFirstRun(q, w) ==
  /\ worker[q][w] # 0
  /\ job[worker[q][w]].attemptsMade = 0
  /\ Complete(q, w)

NextHistory ==
  \/ \E c \in HistoryCalls : AddAfterPrevious(c)
  \/ \E q \in QueueNames : \E w \in Workers(q) : Claim(q, w)
  \/ \E q \in QueueNames : \E w \in Workers(q) : CompleteFirstRun(q, w)
  \/ \E q \in QueueNames : \E w \in Workers(q) : Fail(q, w)
  \/ \E q \in QueueNames : \E j \in JobIds : Promote(q, j)
  \/ Tick

\* ----------------------------------------------------------------- shutdown

\* The modules that register a SIGINT listener: the Redis client, the queue
\* manager and the server.
SigintHandlers == {"redis", "queues", "server"}

\* The process: running, emitting SIGINT to its listeners (`pending` are
\* the ones not yet called), closing, or exited. `closing` tells that
\* close() was called on the queues, `dbClosing` that sequelize.close() was;
\* `atSignal` are the jobs that were active when the signal arrived.
SigRunning == [phase |-> "running", pending |-> {}, closing |-> FALSE,
               dbClosing |-> FALSE, atSignal |-> {}]

SigInit == sig = SigRunning

\* Variant: a queue that keeps fetching jobs while it is closing.
FetchesAlways(s) == TRUE

\* A job-fetching loop asks for the next job only while its queue is not
\* closing.
MayFetch(s) == ~s.closing

\* The process receives SIGINT: the listeners are called one after the
\* other, each up to its first await, before anything else runs.
Sigint ==
  /\ sig.phase = "running"
  /\ sig' = [sig EXCEPT !.phase = "emitting", !.pending = SigintHandlers,
                        !.atSignal = UNION {active[q] : q \in QueueNames}]
  /\ UNCHANGED <<qvars, cvars, mon, nx, clock>>

\* The synchronous part of listener h: the Redis client disconnects; the
\* queue manager calls close() on its five queues; the server calls
\* server.close and sequelize.close().
RunSigintHandler(h) ==
  /\ sig.phase = "emitting"
  /\ h \in sig.pending
  /\ sig' = [sig EXCEPT !.pending = @ \ {h},
                        !.phase = IF sig.pending = {h} THEN "closing" ELSE @,
                        !.closing = @ \/ h = "queues",
                        !.dbClosing = @ \/ h = "server"]
  /\ redisUp' = IF h = "redis" THEN FALSE ELSE redisUp
  /\ UNCHANGED <<qvars, cache, lastCall, projects, members, tasks, users, req, mon, nx, clock>>

\* process.exit(0): the job-fetching loops are gone, the jobs they held stay
\* on the active lists in Redis.
Exited ==
  /\ sig' = [sig EXCEPT !.phase = "exited"]
  /\ worker' = [q \in QueueNames |-> [w \in Workers(q) |-> 0]]
  /\ redisUp' = FALSE
  /\ UNCHANGED <<nextId, job, wait, active, delayed, completed, failed, lastAdd,
                 cache, lastCall, projects, members, tasks, users, req, mon, nx, clock>>

\* The server's listener goes on once sequelize.close() has resolved: it
\* disconnects the Redis client and exits.
ServerExits ==
  /\ sig.phase = "closing"
  /\ sig.dbClosing
  /\ Exited

\* The queue manager's listener goes on once every close() has resolved,
\* which is when no job of the process is running any more: it exits.
QueuesExit ==
  /\ sig.phase = "closing"
  /\ sig.closing
  /\ \A q \in QueueNames : \A w \in Workers(q) : worker[q][w] = 0
  /\ Exited

\* The process is started again.
Restart ==
  /\ sig.phase = "exited"
  /\ sig' = SigRunning
  /\ redisUp' = TRUE
  /\ UNCHANGED <<qvars, cache, lastCall, projects, members, tasks, users, req, mon, nx, clock>>

\* What the process does while it lives: it adds jobs and moves delayed
\* ones while it is running, fetches while its queues are not closing, and
\* lets the running handlers finish.
Alive == sig.phase \in {"running", "closing"}

NextShutdown ==
  \/ \E c \in IssuedCalls, d \in IssuedDelays : sig.phase = "running" /\ Enqueue(c, d)
  \/ \E q \in QueueNames : \E w \in Workers(q) : Alive /\ MayFetch(sig) /\ Claim(q, w)
  \/ \E q \in QueueNames : \E w \in Workers(q) : Alive /\ Complete(q, w)
  \/ \E q \in QueueNames : \E w \in Workers(q) : Alive /\ Fail(q, w)
  \/ \E q \in QueueNames : \E j \in JobIds : sig.phase = "running" /\ Promote(q, j)
  \/ sig.phase = "running" /\ Tick
  \/ \E q \in QueueNames : \E j \in JobIds : sig.phase = "running" /\ CheckStalled(q, j)
  \/ Sigint
  \/ \E h \in SigintHandlers : RunSigintHandler(h)
  \/ ServerExits
  \/ QueuesExit
  \/ Restart

\* ------------------------------------------------------------ getQueueStats

\* The order in which getQueueStats visits the queues.
QueueOrder == <<"email", "notifications", "fileProcessing", "analytics", "cleanup">>

\* The entry of a queue that has not been read.
Unread == [read |-> FALSE, waiting |-> 0, active |-> 0, completed |-> 0, failed |-> 0]

\* getWaiting / getActive / getCompleted / getFailed of queue q, and their
\* lengths.
Counts(q) ==
  [read |-> TRUE, waiting |-> Len(wait[q]), active |-> Cardinality(active[q]),
   completed |-> Len(completed[q]), failed |-> Len(failed[q])]

MonIdle == [pc |-> "idle", next |-> 1, stats |-> [q \in QueueNames |-> Unread]]

MonInit == mon = MonIdle

\* Variant: reading a queue's failed jobs resets their attempts.
JobsResetByRead(q) ==
  [j \in JobIds |-> IF job[j].queue = q THEN [job[j] EXCEPT !.attemptsMade = 0] ELSE job[j]]

\* The jobs after the four getters of queue q have been called: the getters
\* only read.
JobsAfterRead(q) == job

\* QueueManager.getQueueStats() is called.
GetQueueStatsStart ==
  /\ mon.pc # "reading"
  /\ mon' = [MonIdle EXCEPT !.pc = "reading"]
  /\ UNCHANGED <<qvars, cvars, nx, sig, clock>>

\* One turn of the loop: the four getters of the next queue are awaited;
\* `ok` tells whether they all resolved. A rejection leaves the loop and
\* the call, no result is returned.
GetQueueStatsRead(q, ok) ==
  /\ mon.pc = "reading"
  /\ QueueOrder[mon.next] = q
  /\ mon' = IF ok
            THEN [pc |-> IF mon.next = Len(QueueOrder) THEN "returned" ELSE "reading",
                  next |-> IF mon.next = Len(QueueOrder) THEN mon.next ELSE mon.next + 1,
                  stats |-> [mon.stats EXCEPT ![q] = Counts(q)]]
            ELSE [MonIdle EXCEPT !.pc = "threw"]
  /\ job' = JobsAfterRead(q)
  /\ UNCHANGED <<nextId, wait, active, delayed, completed, failed, worker, lastAdd, cvars,
                 nx, sig, clock>>

NextStats ==
  \/ NextQueue
  \/ GetQueueStatsStart
  \/ \E q \in QueueNames, ok \in BOOLEAN : GetQueueStatsRead(q, ok)

\* =================================================== Part II: CacheManager

Users == {"u1", "u2"}
Projects == {"p1"}
TaskIds == {"t1"}

\* Bounds: updates applied to one row; value a counter key is driven to.
MaxVer == 1
MaxCount == 2

\* Default time to live of set / setProjectCache / setUserCache, and of a
\* user session, in seconds.
DefaultTtl == 3600
SessionTtl == 86400

\* Redis' answer to TTL for a key without expiry.
NoExpiry == -1

\* The keys invalidateProjectCache(projectId) deletes.
ProjectKeys(p) ==
  { <<"project", p, "">>, <<"project", p, "tasks">>,
    <<"project", p, "members">>, <<"project", p, "stats">> }

\* The keys invalidateUserCache(userId) deletes.
UserKeys(u) ==
  { <<"user", u, "">>, <<"user", u, "projects">>,
    <<"user", u, "tasks">>, <<"session", u, "">> }

ProjectKey(p) == <<"project", p, "">>
StatsKey(p)   == <<"project", p, "stats">>
UserKey(u)    == <<"user", u, "">>
SessionKey(u) == <<"session", u, "">>

\* The key getProjects caches a user's project list under, for the default
\* query (no status, page 1): user:{userId}:projects:all:1.
ListKey(u) == <<"user", u, "projects:all:1">>

\* Time to live of a cached project list, in seconds.
ListTtl == 1800

\* Time is counted in half seconds: `life` is what is left of a token's
\* lifetime, `black` what is left of its blacklist key's time to live;
\* `loggedOut` are the tokens a logout has succeeded for.
HalfSecondsPerSecond == 2

ClockInit ==
  clock = [life |-> [t \in {"k1", "k2"} |-> MaxLife],
           black |-> [t \in {"k1", "k2"} |-> 0],
           loggedOut |-> {}]

\* A key of a rate-limit counter (checkRateLimit's key argument).
RateKeys == { <<"rate", "ip1", "">> }

\* Access tokens presented by requests, and the key logout blacklists a
\* token under.
Tokens == {"k1", "k2"}
BlacklistKey(t) == <<"blacklist", t, "">>

Keys == UNION {ProjectKeys(p) : p \in Projects} \cup UNION {UserKeys(u) : u \in Users}
        \cup RateKeys \cup {BlacklistKey(t) : t \in Tokens}
        \cup {ListKey(u) : u \in Users}

\* JavaScript values that are cached: null, a number, or the JSON of a
\* project (row version, members, task version), a user or a session.
NoVal == [kind |-> "null", ver |-> 0, members |-> {}, task |-> 0]

NumVal(n) == [NoVal EXCEPT !.kind = "number", !.ver = n]

\* The text 'true' logout stores under a blacklist key.
TrueVal == [NoVal EXCEPT !.kind = "true"]

\* `if (cached)`: null and 0 are falsy, objects and other numbers truthy.
Truthy(v) == v.kind # "null" /\ ~(v.kind = "number" /\ v.ver = 0)

\* What Redis holds under a key: nothing, the JSON text of a value, or the
\* decimal text of a counter; with the key's time to live.
Absent == [present |-> FALSE, enc |-> "none", v |-> NoVal, n |-> 0, ttl |-> 0]

\* JSON.stringify(value) stored by setex / setnx.
Stringified(v, ttl) == [present |-> TRUE, enc |-> "json", v |-> v, n |-> 0, ttl |-> ttl]

CounterText(n, ttl) == [present |-> TRUE, enc |-> "int", v |-> NoVal, n |-> n, ttl |-> ttl]

\* JSON.parse(text): the value back from its JSON text, a number from a
\* counter's text.
Parsed(e) == IF e.enc = "json" THEN e.v ELSE NumVal(e.n)

\* Results of the CacheManager operations.
RNull == [t |-> "null", b |-> FALSE, n |-> 0, v |-> NoVal, limit |-> 0, rem |-> 0, reset |-> 0]
RBool(b) == [RNull EXCEPT !.t = "bool", !.b = b]
RInt(n) == [RNull EXCEPT !.t = "int", !.n = n]
RVal(v) == IF v.kind = "null" THEN RNull ELSE [RNull EXCEPT !.t = "value", !.v = v]
RRate(count, limit, remaining, reset) ==
  [RNull EXCEPT !.t = "rate", !.n = count, !.limit = limit, !.rem = remaining, !.reset = reset]

Returned(res) == [outcome |-> "returned", res |-> res]

\* Variant: a catch block that passes the error on.
Rethrown(op, limit) == [outcome |-> "threw", res |-> RNull]

\* The catch block of each operation: log and return the fallback value.
CatchResult(op, limit) ==
  CASE op = "get"            -> Returned(RNull)
    [] op = "increment"      -> Returned(RNull)
    [] op = "checkRateLimit" -> Returned(RRate(0, limit, limit, 0))
    [] OTHER                 -> Returned(RBool(FALSE))

Max(a, b) == IF a > b THEN a ELSE b

\* Each operation below yields its outcome, the cache contents afterwards
\* and whether a Redis command of it failed; `up` tells whether the
\* connection works when the command is sent.

\* CacheManager.get(key)
CMGet(c, k, up) ==
  IF up
  THEN [out |-> Returned(IF c[k].present THEN RVal(Parsed(c[k])) ELSE RNull),
        cache |-> c, failed |-> FALSE]
  ELSE [out |-> CatchResult("get", 0), cache |-> c, failed |-> TRUE]

\* CacheManager.set(key, value, ttl)
CMSet(c, k, v, ttl, up) ==
  IF up
  THEN [out |-> Returned(RBool(TRUE)),
        cache |-> [c EXCEPT ![k] = Stringified(v, ttl)], failed |-> FALSE]
  ELSE [out |-> CatchResult("set", 0), cache |-> c, failed |-> TRUE]

\* CacheManager.del(key)
CMDel(c, k, up) ==
  IF up
  THEN [out |-> Returned(RBool(TRUE)), cache |-> [c EXCEPT ![k] = Absent],
        failed |-> FALSE]
  ELSE [out |-> CatchResult("del", 0), cache |-> c, failed |-> TRUE]

\* CacheManager.delMultiple(keys)
CMDelMultiple(c, ks, up) ==
  IF ks = {}
  THEN [out |-> Returned(RBool(TRUE)), cache |-> c, failed |-> FALSE]
  ELSE IF up
  THEN [out |-> Returned(RBool(TRUE)),
        cache |-> [k \in DOMAIN c |-> IF k \in ks THEN Absent ELSE c[k]],
        failed |-> FALSE]
  ELSE [out |-> CatchResult("delMultiple", 0), cache |-> c, failed |-> TRUE]

\* CacheManager.exists(key)
CMExists(c, k, up) ==
  IF up
  THEN [out |-> Returned(RBool(c[k].present)), cache |-> c, failed |-> FALSE]
  ELSE [out |-> CatchResult("exists", 0), cache |-> c, failed |-> TRUE]

\* CacheManager.setIfNotExists(key, value, ttl): setnx, then expire when the
\* key was created.
CMSetIfNotExists(c, k, v, ttl, up1, up2) ==
  IF ~up1
  THEN [out |-> CatchResult("setIfNotExists", 0), cache |-> c, failed |-> TRUE]
  ELSE IF c[k].present
  THEN [out |-> Returned(RBool(FALSE)), cache |-> c, failed |-> FALSE]
  ELSE IF ~up2
  THEN [out |-> CatchResult("setIfNotExists", 0),
        cache |-> [c EXCEPT ![k] = Stringified(v, NoExpiry)], failed |-> TRUE]
  ELSE [out |-> Returned(RBool(TRUE)),
        cache |-> [c EXCEPT ![k] = Stringified(v, ttl)], failed |-> FALSE]

\* CacheManager.increment(key, increment): incrby; a key holding JSON text
\* is not an integer and makes the command fail.
CMIncrement(c, k, by, up) ==
  IF ~up \/ (c[k].present /\ c[k].enc # "int")
  THEN [out |-> CatchResult("increment", 0), cache |-> c, failed |-> TRUE]
  ELSE LET n == (IF c[k].present THEN c[k].n ELSE 0) + by
           t == IF c[k].present THEN c[k].ttl ELSE NoExpiry
       IN  [out |-> Returned(RInt(n)), cache |-> [c EXCEPT ![k] = CounterText(n, t)],
            failed |-> FALSE]

\* CacheManager.checkRateLimit(key, limit, window): incr, expire on the
\* first hit, then ttl.
CMCheckRateLimit(c, k, limit, window, up1, up2, up3) ==
  IF ~up1 \/ (c[k].present /\ c[k].enc # "int")
  THEN [out |-> CatchResult("checkRateLimit", limit), cache |-> c, failed |-> TRUE]
  ELSE LET n == (IF c[k].present THEN c[k].n ELSE 0) + 1
           t == IF c[k].present THEN c[k].ttl ELSE NoExpiry
           c1 == [c EXCEPT ![k] = CounterText(n, t)]
           c2 == IF n = 1 THEN [c EXCEPT ![k] = CounterText(n, window)] ELSE c1
       IN  IF n = 1 /\ ~up2
           THEN [out |-> CatchResult("checkRateLimit", limit), cache |-> c1, failed |-> TRUE]
           ELSE IF ~up3
           THEN [out |-> CatchResult("checkRateLimit", limit), cache |-> c2, failed |-> TRUE]
           ELSE [out |-> Returned(RRate(n, limit, Max(0, limit - n), c2[k].ttl)),
                 cache |-> c2, failed |-> FALSE]

\* JavaScript's undefined, which a fallback may return.
Undefined == [NoVal EXCEPT !.kind = "undefined"]

\* Variant: every fallback result is stored.
StoresAnything(v) == TRUE

\* `value !== null && value !== undefined`
ShouldStore(v) == v.kind \notin {"null", "undefined"}

\* What one invocation of a fallback does: it returns a value or throws.
FallbackReturns(v) == [throws |-> FALSE, v |-> v]
FallbackThrows == [throws |-> TRUE, v |-> NoVal]

\* CacheManager.getOrSet(key, fallback, ttl); `f1` and `f2` are what the
\* first and the second invocation of fallback do. `calls` counts the
\* invocations made.
CMGetOrSet(c, k, f1, f2, ttl, up1, up2) ==
  LET got == CMGet(c, k, up1)
  IN  IF got.out.res.t # "null"
      THEN [out |-> got.out, cache |-> c, failed |-> FALSE, calls |-> 0]
      ELSE IF f1.throws
      THEN IF f2.throws
           THEN [out |-> [outcome |-> "threw", res |-> RNull], cache |-> c,
                 failed |-> got.failed, calls |-> 2]
           ELSE [out |-> Returned(RVal(f2.v)), cache |-> c,
                 failed |-> got.failed, calls |-> 2]
      ELSE IF ShouldStore(f1.v)
      THEN LET put == CMSet(c, k, f1.v, ttl, up2)
           IN  [out |-> Returned(RVal(f1.v)), cache |-> put.cache,
                failed |-> got.failed \/ put.failed, calls |-> 1]
      ELSE [out |-> Returned(RVal(f1.v)), cache |-> c,
            failed |-> got.failed, calls |-> 1]

\* ----------------------------------------------- direct CacheManager calls

NoCall == [op |-> "none", out |-> Returned(RNull), failed |-> FALSE,
           missing |-> FALSE, limit |-> 0, calls |-> 0]

\* The keys, values and limits the direct calls are issued with.
CMKeys == RateKeys \cup {UserKey("u1")}
CMValues == {[NoVal EXCEPT !.kind = "user", !.ver = n] : n \in 0 .. MaxVer}
IssuedLimits == {1, MaxCount}

\* The outcome of a call is recorded; the connection is lost for good from
\* the first command that found it down (`upAfter`).
Called(op, missing, r, limit, upAfter) ==
  /\ cache' = r.cache
  /\ lastCall' = [op |-> op, out |-> r.out, failed |-> r.failed,
                  missing |-> missing, limit |-> limit, calls |-> 0]
  /\ redisUp' = upAfter
  /\ UNCHANGED <<projects, members, tasks, users, req, qvars, mvars>>

CallGet(k) == Called("get", ~cache[k].present, CMGet(cache, k, redisUp), 0, redisUp)

CallSet(k, v) == Called("set", ~cache[k].present, CMSet(cache, k, v, DefaultTtl, redisUp), 0, redisUp)

CallDel(k) == Called("del", ~cache[k].present, CMDel(cache, k, redisUp), 0, redisUp)

CallDelMultiple(ks) ==
  Called("delMultiple", \A k \in ks : ~cache[k].present,
         CMDelMultiple(cache, ks, redisUp), 0, redisUp)

CallExists(k) == Called("exists", ~cache[k].present, CMExists(cache, k, redisUp), 0, redisUp)

\* `drop` is the number of commands answered before the connection is lost.
CallSetIfNotExists(k, v, drop) ==
  LET up1 == redisUp /\ drop >= 1
      up2 == redisUp /\ drop >= 2
  IN  Called("setIfNotExists", ~cache[k].present,
             CMSetIfNotExists(cache, k, v, DefaultTtl, up1, up2), 0, up2)

CallIncrement(k) ==
  /\ cache[k].present /\ cache[k].enc = "int" => cache[k].n < MaxCount
  /\ Called("increment", ~cache[k].present, CMIncrement(cache, k, 1, redisUp), 0, redisUp)

CallCheckRateLimit(k, limit, drop) ==
  LET up1 == redisUp /\ drop >= 1
      up2 == redisUp /\ drop >= 2
      up3 == redisUp /\ drop >= 3
  IN  /\ cache[k].present /\ cache[k].enc = "int" => cache[k].n < MaxCount
      /\ Called("checkRateLimit", ~cache[k].present,
                CMCheckRateLimit(cache, k, limit, DefaultTtl, up1, up2, up3), limit, up3)

\* What the fallbacks passed to getOrSet do.
FallbackOutcomes ==
  {FallbackReturns(v) : v \in CMValues \cup {NoVal, Undefined}} \cup {FallbackThrows}

\* A second invocation happens only after the first one threw.
SecondOutcomes(f1) == IF f1.throws THEN FallbackOutcomes ELSE {FallbackThrows}

CallGetOrSet(k, f1, f2, drop) ==
  LET up1 == redisUp /\ drop >= 1
      up2 == redisUp /\ drop >= 2
      r == CMGetOrSet(cache, k, f1, f2, DefaultTtl, up1, up2)
  IN  /\ cache' = r.cache
      /\ lastCall' = [op |-> "getOrSet", out |-> r.out, failed |-> r.failed,
                      missing |-> ~cache[k].present, limit |-> 0, calls |-> r.calls]
      /\ redisUp' = up2
      /\ UNCHANGED <<projects, members, tasks, users, req, qvars, mvars>>

\* The Redis connection is lost or comes back.
ToggleRedis ==
  /\ redisUp' = ~redisUp
  /\ UNCHANGED <<cache, lastCall, projects, members, tasks, users, req, qvars, mvars>>

\* A key with a time to live expires.
ExpireKey(k) ==
  /\ cache[k].present
  /\ cache[k].ttl > 0
  /\ cache' = [cache EXCEPT ![k] = Absent]
  /\ UNCHANGED <<redisUp, lastCall, projects, members, tasks, users, req, qvars, mvars>>

NextCM ==
  \/ \E k \in CMKeys : CallGet(k)
  \/ \E k \in CMKeys, v \in CMValues : CallSet(k, v)
  \/ \E k \in CMKeys : CallDel(k)
  \/ \E ks \in SUBSET CMKeys : CallDelMultiple(ks)
  \/ \E k \in CMKeys : CallExists(k)
  \/ \E k \in CMKeys, v \in CMValues, drop \in 0 .. 2 : CallSetIfNotExists(k, v, drop)
  \/ \E k \in CMKeys : CallIncrement(k)
  \/ \E k \in CMKeys, limit \in IssuedLimits, drop \in 0 .. 3 : CallCheckRateLimit(k, limit, drop)
  \/ \E k \in CMKeys, f1 \in FallbackOutcomes, drop \in 0 .. 2 :
       \E f2 \in SecondOutcomes(f1) : CallGetOrSet(k, f1, f2, drop)
  \/ ToggleRedis
  \/ \E k \in CMKeys : ExpireKey(k)

\* ------------------------------------------- concurrent setIfNotExists calls

\* The callers of setIfNotExists, the keys they call it for and the value
\* each of them passes.
Callers == {"a", "b"}
NxKeys == CMKeys
NxValue(c) == [NoVal EXCEPT !.kind = "lock", !.members = {c}]

\* A caller's call: its position, its key and what it returned; `won` are
\* the keys a call of the caller returned true for, `lost` the keys a
\* command of the caller failed for.
NxIdle == [pc |-> "idle", key |-> CHOOSE k \in NxKeys : TRUE, ret |-> "none",
           won |-> {}, lost |-> {}]

NxInit == nx = [c \in Callers |-> NxIdle]

\* Variant: a SETNX that never finds the key taken.
KeyNeverTaken(c, k) == FALSE

\* SETNX's test, made by Redis within the one command.
KeyTaken(c, k) == c[k].present

\* redisClient.setnx(key, JSON.stringify(value)): answered 1 when the key
\* was created, 0 when it exists; a failure is caught and false returned.
SetNxSend(c, k) ==
  /\ nx[c].pc \in {"idle", "done"}
  /\ IF ~redisUp
     THEN /\ nx' = [nx EXCEPT ![c] = [@ EXCEPT !.pc = "done", !.key = k, !.ret = "false",
                                              !.lost = @ \cup {k}]]
          /\ cache' = cache
     ELSE IF KeyTaken(cache, k)
     THEN /\ nx' = [nx EXCEPT ![c] = [@ EXCEPT !.pc = "done", !.key = k, !.ret = "false"]]
          /\ cache' = cache
     ELSE /\ nx' = [nx EXCEPT ![c] = [@ EXCEPT !.pc = "expire", !.key = k, !.ret = "none"]]
          /\ cache' = [cache EXCEPT ![k] = Stringified(NxValue(c), NoExpiry)]
  /\ UNCHANGED <<redisUp, lastCall, projects, members, tasks, users, req, qvars, mon, sig, clock>>

\* redisClient.expire(key, ttl), then `return true`; a failure is caught
\* and false returned.
SetNxExpire(c) ==
  /\ nx[c].pc = "expire"
  /\ LET k == nx[c].key
     IN  IF redisUp
         THEN /\ nx' = [nx EXCEPT ![c] = [@ EXCEPT !.pc = "done", !.ret = "true",
                                                  !.won = @ \cup {k}]]
              /\ cache' = [cache EXCEPT ![k] = IF @.present THEN [@ EXCEPT !.ttl = DefaultTtl]
                                                            ELSE @]
         ELSE /\ nx' = [nx EXCEPT ![c] = [@ EXCEPT !.pc = "done", !.ret = "false",
                                                  !.lost = @ \cup {k}]]
              /\ cache' = cache
  /\ UNCHANGED <<redisUp, lastCall, projects, members, tasks, users, req, qvars, mon, sig, clock>>

NextSetNx ==
  \/ \E c \in Callers, k \in NxKeys : SetNxSend(c, k)
  \/ \E c \in Callers : SetNxExpire(c)
  \/ ToggleRedis

\* ================================================ Part III: request handlers

\* Bounds: requests in progress at the same time; requests in progress at
\* the same time where a read of a project races its update.
MaxReqs == 1
MaxRace == 2

ReqIds == 1 .. MaxRace

\* The owner of the project (the ProjectMember row with role 'owner').
Owner(p) == "u1"

\* Names the queue manager module exports.
ModuleExports ==
  {"QueueManager", "emailQueue", "notificationQueue", "fileProcessingQueue",
   "analyticsQueue", "cleanupQueue"}

\* Names in scope in the project controller module.
Declared == {"Project", "ProjectMember", "Task", "User", "CacheManager", "QueueManager", "logger"}

ProjectMutations == {"updateProject", "deleteProject", "addMember", "removeMember"}
UserMutations == {"updateProfile", "changePassword"}
TaskUpdates == {"updateTask", "partialUpdateTask", "assignTask", "updateTaskStatus"}
TaskMutations == {"createTask", "deleteTask"} \cup TaskUpdates
Reads == {"getProject", "getProjectStats", "getProfile"}
ListReads == {"getProjects"}
Ops == ProjectMutations \cup UserMutations \cup TaskMutations \cup Reads

\* The requests that are issued: project requests by either user, aimed at
\* either user where they name one; profile and task requests by the owner.
IssuedRequests ==
  {<<op, actor, target>> \in Ops \X Users \X Users :
     /\ op \notin {"addMember", "removeMember"} => target = actor
     /\ op \notin ProjectMutations \cup {"getProject"} => actor = "u1"}

\* The version of the project's task as the tasks association loads it, -1
\* when the project has no task.
TaskView(p) ==
  IF \E t \in TaskIds : tasks[t].state = "live" /\ tasks[t].proj = p
  THEN tasks[CHOOSE t \in TaskIds : tasks[t].state = "live" /\ tasks[t].proj = p].rev
  ELSE -1

\* project.toJSON() of findByPk with the members and tasks associations.
ProjectJSON(p) ==
  [kind |-> "project", ver |-> projects[p].ver, members |-> members[p], task |-> TaskView(p)]

\* user.toJSON() of findByPk with the projects association.
UserJSON(u) ==
  [kind |-> "user", ver |-> users[u].ver,
   members |-> {p \in Projects : projects[p].exists /\ u \in members[p]}, task |-> 0]

\* The result of getProjects for user u: the rows of the projects u is a
\* member of, as findAndCountAll loads them (the requests that list
\* projects leave tasks alone, so the tasks' attributes are constant).
ListJSON(u) ==
  LET mine == {p \in Projects : projects[p].exists /\ u \in members[p]}
  IN  [kind |-> "list", ver |-> IF "p1" \in mine THEN projects["p1"].ver ELSE 0,
       members |-> mine, task |-> 0]

Idle ==
  [op |-> "idle", pc |-> "idle", actor |-> "u1", proj |-> "p1", target |-> "u1",
   task |-> "t1", status |-> 0, ret |-> NoVal, loc |-> NoVal, committed |-> FALSE,
   inv |-> "none", hit |-> FALSE, jobs |-> {}, err |-> "none", token |-> "k1"]

\* The state after start-up: Redis connected and empty, one project owned
\* by its creator, no task yet.
CacheInit ==
  /\ redisUp = TRUE
  /\ cache = [k \in Keys |-> Absent]
  /\ lastCall = NoCall
  /\ projects = [p \in Projects |-> [exists |-> TRUE, ver |-> 0]]
  /\ members = [p \in Projects |-> {Owner(p)}]
  /\ tasks = [t \in TaskIds |-> [state |-> "new", rev |-> 0, proj |-> "none"]]
  /\ users = [u \in Users |-> [ver |-> 0]]
  /\ req = [r \in ReqIds |-> Idle]

\* res.status(status).json(val): the handler is finished.
Respond(r, status, val) ==
  [req EXCEPT ![r] = [@ EXCEPT !.pc = "done", !.status = status, !.ret = val, !.loc = NoVal]]

At(r, op, label) == req[r].op = op /\ req[r].pc = label

\* Task routes reach their handler directly; every other route runs
\* authenticate first.
FirstLabel(op) == IF op \in TaskMutations \cup {"login"} THEN "write" ELSE "auth"

\* A request arrives. Row versions are counted up to MaxVer.
Start(r, op, actor, target) ==
  /\ req[r].pc \in {"idle", "done"}
  /\ op = "updateProject" => projects["p1"].ver < MaxVer
  /\ op \in UserMutations => users[actor].ver < MaxVer
  /\ op \in TaskUpdates => tasks["t1"].rev < MaxVer
  /\ op = "createTask" => tasks["t1"].state = "new"
  /\ req' = [req EXCEPT ![r] = [Idle EXCEPT !.op = op, !.pc = FirstLabel(op),
                                           !.actor = actor, !.target = target]]
  /\ UNCHANGED <<redisUp, cache, lastCall, projects, members, tasks, users, qvars, mvars>>

\* jwt.verify: a token is valid until its expiry time.
TokenValid(t) == clock.life[t] > 0

\* authenticate: verifyAccessToken throws for an expired token; the
\* blacklist lookup goes to Redis directly and answers 401 when it fails or
\* finds the token; the user row exists and is active.
Authenticate(r) ==
  /\ req[r].pc = "auth"
  /\ req' = IF ~TokenValid(req[r].token)
            THEN [Respond(r, 401, NoVal) EXCEPT ![r].err = "expired"]
            ELSE IF ~redisUp
            THEN [Respond(r, 401, NoVal) EXCEPT ![r].err = "redis"]
            ELSE IF cache[BlacklistKey(req[r].token)].present
            THEN [Respond(r, 401, NoVal) EXCEPT ![r].err = "revoked"]
            ELSE [req EXCEPT ![r].pc = IF req[r].op \in Reads \cup ListReads
                                       THEN "cacheGet" ELSE "write"]
  /\ UNCHANGED <<redisUp, cache, lastCall, projects, members, tasks, users, qvars, mvars>>

\* ---- getProject
GetProjectCacheRead(r) ==
  /\ At(r, "getProject", "cacheGet")
  /\ LET got == CMGet(cache, ProjectKey(req[r].proj), redisUp).out.res.v
     IN  req' = IF Truthy(got)
                THEN [Respond(r, 200, got) EXCEPT ![r].hit = TRUE]
                ELSE [req EXCEPT ![r].pc = "load"]
  /\ UNCHANGED <<redisUp, cache, lastCall, projects, members, tasks, users, qvars, mvars>>

GetProjectLoad(r) ==
  /\ At(r, "getProject", "load")
  /\ req' = IF projects[req[r].proj].exists
            THEN [req EXCEPT ![r] = [@ EXCEPT !.pc = "cacheSet", !.loc = ProjectJSON(req[r].proj)]]
            ELSE Respond(r, 404, NoVal)
  /\ UNCHANGED <<redisUp, cache, lastCall, projects, members, tasks, users, qvars, mvars>>

GetProjectCacheWrite(r) ==
  /\ At(r, "getProject", "cacheSet")
  /\ cache' = CMSet(cache, ProjectKey(req[r].proj), req[r].loc, DefaultTtl, redisUp).cache
  /\ req' = Respond(r, 200, req[r].loc)
  /\ UNCHANGED <<redisUp, lastCall, projects, members, tasks, users, qvars, mvars>>

\* ---- getProjects
GetProjectsCacheRead(r) ==
  /\ At(r, "getProjects", "cacheGet")
  /\ LET got == CMGet(cache, ListKey(req[r].actor), redisUp).out.res.v
     IN  req' = IF Truthy(got)
                THEN [Respond(r, 200, got) EXCEPT ![r].hit = TRUE]
                ELSE [req EXCEPT ![r].pc = "load"]
  /\ UNCHANGED <<redisUp, cache, lastCall, projects, members, tasks, users, qvars, mvars>>

GetProjectsLoad(r) ==
  /\ At(r, "getProjects", "load")
  /\ req' = [req EXCEPT ![r] = [@ EXCEPT !.pc = "cacheSet", !.loc = ListJSON(req[r].actor)]]
  /\ UNCHANGED <<redisUp, cache, lastCall, projects, members, tasks, users, qvars, mvars>>

GetProjectsCacheWrite(r) ==
  /\ At(r, "getProjects", "cacheSet")
  /\ cache' = CMSet(cache, ListKey(req[r].actor), req[r].loc, ListTtl, redisUp).cache
  /\ req' = Respond(r, 200, req[r].loc)
  /\ UNCHANGED <<redisUp, lastCall, projects, members, tasks, users, qvars, mvars>>

\* ---- getProjectStats
GetProjectStatsCacheRead(r) ==
  /\ At(r, "getProjectStats", "cacheGet")
  /\ LET got == CMGet(cache, StatsKey(req[r].proj), redisUp).out.res.v
     IN  req' = IF Truthy(got)
                THEN [Respond(r, 200, got) EXCEPT ![r].hit = TRUE]
                ELSE [req EXCEPT ![r].pc = "load"]
  /\ UNCHANGED <<redisUp, cache, lastCall, projects, members, tasks, users, qvars, mvars>>

\* The query's attributes name `sequelize`, which the module never declares:
\* building the query throws and the handler answers 500.
GetProjectStatsCompute(r) ==
  /\ At(r, "getProjectStats", "load")
  /\ IF "sequelize" \in Declared
     THEN /\ cache' = CMSet(cache, StatsKey(req[r].proj), ProjectJSON(req[r].proj),
                            DefaultTtl, redisUp).cache
          /\ req' = Respond(r, 200, ProjectJSON(req[r].proj))
     ELSE /\ cache' = cache
          /\ req' = Respond(r, 500, NoVal)
  /\ UNCHANGED <<redisUp, lastCall, projects, members, tasks, users, qvars, mvars>>

\* ---- getProfile
GetProfileCacheRead(r) ==
  /\ At(r, "getProfile", "cacheGet")
  /\ LET got == CMGet(cache, UserKey(req[r].actor), redisUp).out.res.v
     IN  req' = IF Truthy(got)
                THEN [Respond(r, 200, got) EXCEPT ![r].hit = TRUE]
                ELSE [req EXCEPT ![r].pc = "load"]
  /\ UNCHANGED <<redisUp, cache, lastCall, projects, members, tasks, users, qvars, mvars>>

GetProfileLoad(r) ==
  /\ At(r, "getProfile", "load")
  /\ req' = [req EXCEPT ![r] = [@ EXCEPT !.pc = "cacheSet", !.loc = UserJSON(req[r].actor)]]
  /\ UNCHANGED <<redisUp, cache, lastCall, projects, members, tasks, users, qvars, mvars>>

GetProfileCacheWrite(r) ==
  /\ At(r, "getProfile", "cacheSet")
  /\ cache' = CMSet(cache, UserKey(req[r].actor), req[r].loc, DefaultTtl, redisUp).cache
  /\ req' = Respond(r, 200, req[r].loc)
  /\ UNCHANGED <<redisUp, lastCall, projects, members, tasks, users, qvars, mvars>>

\* The store write of a mutation has committed.
Committed(r, label) == [req EXCEPT ![r] = [@ EXCEPT !.pc = label, !.committed = TRUE]]

\* invalidateProjectCache / invalidateUserCache has returned.
Invalidated(r, res, label) ==
  [req EXCEPT ![r] = [@ EXCEPT !.pc = label,
                               !.inv = IF res.out.res.b THEN "ok" ELSE "failed"]]

\* ---- updateProject
UpdateProjectWrite(r) ==
  /\ At(r, "updateProject", "write")
  /\ LET p == req[r].proj
     IN  IF projects[p].exists
         THEN /\ projects' = [projects EXCEPT ![p].ver = @ + 1]
              /\ req' = Committed(r, "invalidate")
         ELSE /\ projects' = projects
              /\ req' = Respond(r, 404, NoVal)
  /\ UNCHANGED <<redisUp, cache, lastCall, members, tasks, users, qvars, mvars>>

UpdateProjectInvalidate(r) ==
  /\ At(r, "updateProject", "invalidate")
  /\ LET res == CMDelMultiple(cache, ProjectKeys(req[r].proj), redisUp)
     IN  /\ cache' = res.cache
         /\ req' = Invalidated(r, res, "notify")
  /\ UNCHANGED <<redisUp, lastCall, projects, members, tasks, users, qvars, mvars>>

\* One in-app notification job per member other than the actor; `ok` tells
\* whether the queue accepted them.
UpdateProjectNotify(r, ok) ==
  /\ At(r, "updateProject", "notify")
  /\ LET others == members[req[r].proj] \ {req[r].actor}
     IN  /\ others = {} => ok
         /\ req' = IF ok
                   THEN [Respond(r, 200, ProjectJSON(req[r].proj)) EXCEPT
                           ![r].jobs = IF others = {} THEN {} ELSE {"addInAppNotificationJob"}]
                   ELSE Respond(r, 500, NoVal)
  /\ UNCHANGED <<redisUp, cache, lastCall, projects, members, tasks, users, qvars, mvars>>

\* ---- deleteProject
\* Destroying the project removes its member rows and detaches its tasks.
DeleteProjectDestroy(r) ==
  /\ At(r, "deleteProject", "write")
  /\ LET p == req[r].proj
     IN  IF ~projects[p].exists
         THEN /\ req' = Respond(r, 404, NoVal)
              /\ UNCHANGED <<projects, members, tasks>>
         ELSE IF req[r].actor # Owner(p)
         THEN /\ req' = Respond(r, 403, NoVal)
              /\ UNCHANGED <<projects, members, tasks>>
         ELSE /\ projects' = [projects EXCEPT ![p].exists = FALSE]
              /\ members' = [members EXCEPT ![p] = {}]
              /\ tasks' = [t \in TaskIds |->
                             IF tasks[t].proj = p THEN [tasks[t] EXCEPT !.proj = "none"]
                             ELSE tasks[t]]
              /\ req' = Committed(r, "invalidate")
  /\ UNCHANGED <<redisUp, cache, lastCall, users, qvars, mvars>>

DeleteProjectInvalidate(r) ==
  /\ At(r, "deleteProject", "invalidate")
  /\ LET res == CMDelMultiple(cache, ProjectKeys(req[r].proj), redisUp)
     IN  /\ cache' = res.cache
         /\ req' = [Invalidated(r, res, "done") EXCEPT ![r].status = 200]
  /\ UNCHANGED <<redisUp, lastCall, projects, members, tasks, users, qvars, mvars>>

\* ---- addMember
AddMemberCreate(r) ==
  /\ At(r, "addMember", "write")
  /\ LET p == req[r].proj
     IN  IF req[r].target \in members[p]
         THEN /\ members' = members
              /\ req' = Respond(r, 409, NoVal)
         ELSE IF ~projects[p].exists
         THEN /\ members' = members
              /\ req' = Respond(r, 500, NoVal)
         ELSE /\ members' = [members EXCEPT ![p] = @ \cup {req[r].target}]
              /\ req' = Committed(r, "notify")
  /\ UNCHANGED <<redisUp, cache, lastCall, projects, tasks, users, qvars, mvars>>

\* The notification is enqueued before the cache is invalidated: when the
\* queue rejects the job the handler answers 500 from its catch block.
AddMemberNotify(r, ok) ==
  /\ At(r, "addMember", "notify")
  /\ req' = IF ok
            THEN [req EXCEPT ![r] = [@ EXCEPT !.pc = "invalidate",
                                              !.jobs = {"addInAppNotificationJob"}]]
            ELSE Respond(r, 500, NoVal)
  /\ UNCHANGED <<redisUp, cache, lastCall, projects, members, tasks, users, qvars, mvars>>

AddMemberInvalidate(r) ==
  /\ At(r, "addMember", "invalidate")
  /\ LET res == CMDelMultiple(cache, ProjectKeys(req[r].proj), redisUp)
     IN  /\ cache' = res.cache
         /\ req' = [Invalidated(r, res, "done") EXCEPT ![r].status = 201]
  /\ UNCHANGED <<redisUp, lastCall, projects, members, tasks, users, qvars, mvars>>

\* ---- removeMember
RemoveMemberDestroy(r) ==
  /\ At(r, "removeMember", "write")
  /\ LET p == req[r].proj
     IN  IF req[r].target \notin members[p]
         THEN /\ members' = members
              /\ req' = Respond(r, 404, NoVal)
         ELSE IF req[r].target = Owner(p)
         THEN /\ members' = members
              /\ req' = Respond(r, 400, NoVal)
         ELSE /\ members' = [members EXCEPT ![p] = @ \ {req[r].target}]
              /\ req' = Committed(r, "notify")
  /\ UNCHANGED <<redisUp, cache, lastCall, projects, tasks, users, qvars, mvars>>

RemoveMemberNotify(r, ok) ==
  /\ At(r, "removeMember", "notify")
  /\ req' = IF ok
            THEN [req EXCEPT ![r] = [@ EXCEPT !.pc = "invalidate",
                                              !.jobs = {"addInAppNotificationJob"}]]
            ELSE Respond(r, 500, NoVal)
  /\ UNCHANGED <<redisUp, cache, lastCall, projects, members, tasks, users, qvars, mvars>>

RemoveMemberInvalidate(r) ==
  /\ At(r, "removeMember", "invalidate")
  /\ LET res == CMDelMultiple(cache, ProjectKeys(req[r].proj), redisUp)
     IN  /\ cache' = res.cache
         /\ req' = [Invalidated(r, res, "done") EXCEPT ![r].status = 200]
  /\ UNCHANGED <<redisUp, lastCall, projects, members, tasks, users, qvars, mvars>>

\* ---- updateProfile
UpdateProfileWrite(r) ==
  /\ At(r, "updateProfile", "write")
  /\ users' = [users EXCEPT ![req[r].actor].ver = @ + 1]
  /\ req' = Committed(r, "invalidate")
  /\ UNCHANGED <<redisUp, cache, lastCall, projects, members, tasks, qvars, mvars>>

UpdateProfileInvalidate(r) ==
  /\ At(r, "updateProfile", "invalidate")
  /\ LET res == CMDelMultiple(cache, UserKeys(req[r].actor), redisUp)
     IN  /\ cache' = res.cache
         /\ req' = [Invalidated(r, res, "done") EXCEPT
                      ![r].status = 200, ![r].ret = UserJSON(req[r].actor)]
  /\ UNCHANGED <<redisUp, lastCall, projects, members, tasks, users, qvars, mvars>>

\* ---- changePassword
\* `pwOk` tells whether the current password given in the request is valid.
ChangePasswordWrite(r, pwOk) ==
  /\ At(r, "changePassword", "write")
  /\ IF pwOk
     THEN /\ users' = [users EXCEPT ![req[r].actor].ver = @ + 1]
          /\ req' = Committed(r, "invalidate")
     ELSE /\ users' = users
          /\ req' = Respond(r, 400, NoVal)
  /\ UNCHANGED <<redisUp, cache, lastCall, projects, members, tasks, qvars, mvars>>

ChangePasswordInvalidate(r) ==
  /\ At(r, "changePassword", "invalidate")
  /\ LET res == CMDelMultiple(cache, UserKeys(req[r].actor), redisUp)
     IN  /\ cache' = res.cache
         /\ req' = [Invalidated(r, res, "done") EXCEPT ![r].status = 200]
  /\ UNCHANGED <<redisUp, lastCall, projects, members, tasks, users, qvars, mvars>>

\* ---- login
SessionOps == {"login", "logout", "changePassword"}

\* A login, logout or changePassword request of the owner arrives, the
\* latter two carrying an access token.
StartSession(r, op, token) ==
  /\ req[r].pc \in {"idle", "done"}
  /\ op \in SessionOps
  /\ op = "changePassword" => users["u1"].ver < MaxVer
  /\ req' = [req EXCEPT ![r] = [Idle EXCEPT !.op = op, !.pc = FirstLabel(op),
                                           !.token = token]]
  /\ UNCHANGED <<redisUp, cache, lastCall, projects, members, tasks, users, qvars, mvars>>

\* The session data login and register cache: the user's JSON and the
\* login time.
SessionJSON(u) == [UserJSON(u) EXCEPT !.kind = "session"]

\* findByEmail, isActive and validatePassword: `credOk` tells whether they
\* all pass; then lastLoginAt, which no cached value shows, is updated.
LoginCheck(r, credOk) ==
  /\ At(r, "login", "write")
  /\ req' = IF credOk THEN [req EXCEPT ![r].pc = "session"] ELSE Respond(r, 401, NoVal)
  /\ UNCHANGED <<redisUp, cache, lastCall, projects, members, tasks, users, qvars, mvars>>

LoginSession(r) ==
  /\ At(r, "login", "session")
  /\ cache' = CMSet(cache, SessionKey(req[r].actor), SessionJSON(req[r].actor),
                    SessionTtl, redisUp).cache
  /\ req' = [req EXCEPT ![r].pc = "cacheSet"]
  /\ UNCHANGED <<redisUp, lastCall, projects, members, tasks, users, qvars, mvars>>

LoginCacheWrite(r) ==
  /\ At(r, "login", "cacheSet")
  /\ cache' = CMSet(cache, UserKey(req[r].actor), UserJSON(req[r].actor),
                    DefaultTtl, redisUp).cache
  /\ req' = Respond(r, 200, UserJSON(req[r].actor))
  /\ UNCHANGED <<redisUp, lastCall, projects, members, tasks, users, qvars, mvars>>

\* ---- logout
\* Math.floor((tokenExpiration.getTime() - Date.now()) / 1000)
FloorSeconds(left) == left \div HalfSecondsPerSecond

\* The token is blacklisted through redisClient directly for `ttl` seconds,
\* the whole seconds left of its lifetime, when that is more than none: a
\* failure of that command is caught by the handler, which answers 500.
LogoutBlacklist(r) ==
  /\ At(r, "logout", "write")
  /\ LET t == req[r].token
         ttl == FloorSeconds(clock.life[t])
     IN  IF ttl > 0
         THEN IF redisUp
              THEN /\ cache' = [cache EXCEPT ![BlacklistKey(t)] = Stringified(TrueVal, ttl)]
                   /\ clock' = [clock EXCEPT !.black[t] = ttl * HalfSecondsPerSecond]
                   /\ req' = [req EXCEPT ![r].pc = "session"]
              ELSE /\ cache' = cache
                   /\ clock' = clock
                   /\ req' = Respond(r, 500, NoVal)
         ELSE /\ cache' = cache
              /\ clock' = clock
              /\ req' = [req EXCEPT ![r].pc = "session"]
  /\ UNCHANGED <<redisUp, lastCall, projects, members, tasks, users, qvars, mon, nx, sig>>

\* CacheManager.deleteUserSession(userId)
DeleteUserSession(c, u, up) == CMDel(c, SessionKey(u), up)

LogoutDeleteSession(r) ==
  /\ At(r, "logout", "session")
  /\ cache' = DeleteUserSession(cache, req[r].actor, redisUp).cache
  /\ req' = [req EXCEPT ![r].pc = "invalidate"]
  /\ UNCHANGED <<redisUp, lastCall, projects, members, tasks, users, qvars, mvars>>

LogoutInvalidate(r) ==
  /\ At(r, "logout", "invalidate")
  /\ LET res == CMDelMultiple(cache, UserKeys(req[r].actor), redisUp)
     IN  /\ cache' = res.cache
         /\ req' = [Invalidated(r, res, "done") EXCEPT ![r].status = 200]
  /\ clock' = [clock EXCEPT !.loggedOut = @ \cup {req[r].token}]
  /\ UNCHANGED <<redisUp, lastCall, projects, members, tasks, users, qvars, mon, nx, sig>>

\* Half a second passes: the tokens and the blacklist keys have that much
\* less to live; a blacklist key whose time is up is gone.
HalfSecond ==
  /\ \E t \in Tokens : clock.life[t] > 0
  /\ clock' = [clock EXCEPT
                 !.life = [t \in Tokens |-> IF @[t] > 0 THEN @[t] - 1 ELSE 0],
                 !.black = [t \in Tokens |-> IF @[t] > 0 THEN @[t] - 1 ELSE 0]]
  /\ cache' = [k \in Keys |->
                 IF \E t \in Tokens : k = BlacklistKey(t) /\ clock.black[t] = 1
                 THEN Absent ELSE cache[k]]
  /\ UNCHANGED <<redisUp, lastCall, projects, members, tasks, users, req, qvars, mon, nx, sig>>

\* ---- task handlers
\* Task.create: the row references its project.
CreateTaskWrite(r) ==
  /\ At(r, "createTask", "write")
  /\ LET t == req[r].task
         p == req[r].proj
     IN  IF projects[p].exists
         THEN /\ tasks' = [tasks EXCEPT ![t] = [state |-> "live", rev |-> 0, proj |-> p]]
              /\ req' = Committed(r, "enqueue")
         ELSE /\ tasks' = tasks
              /\ req' = Respond(r, 500, NoVal)
  /\ UNCHANGED <<redisUp, cache, lastCall, projects, members, users, qvars, mvars>>

\* findByPk, 404 when the task is missing, then task.update.
TaskUpdateWrite(r, op) ==
  /\ At(r, op, "write")
  /\ LET t == req[r].task
     IN  IF tasks[t].state = "live"
         THEN /\ tasks' = [tasks EXCEPT ![t].rev = @ + 1]
              /\ req' = Committed(r, "enqueue")
         ELSE /\ tasks' = tasks
              /\ req' = Respond(r, 404, NoVal)
  /\ UNCHANGED <<redisUp, cache, lastCall, projects, members, users, qvars, mvars>>

UpdateTaskWrite(r) == TaskUpdateWrite(r, "updateTask")

PartialUpdateTaskWrite(r) == TaskUpdateWrite(r, "partialUpdateTask")

AssignTaskWrite(r) == TaskUpdateWrite(r, "assignTask")

UpdateTaskStatusWrite(r) == TaskUpdateWrite(r, "updateTaskStatus")

DeleteTaskWrite(r) ==
  /\ At(r, "deleteTask", "write")
  /\ LET t == req[r].task
     IN  IF tasks[t].state = "live"
         THEN /\ tasks' = [tasks EXCEPT ![t] = [state |-> "deleted", rev |-> 0, proj |-> "none"]]
              /\ req' = Committed(r, "enqueue")
         ELSE /\ tasks' = tasks
              /\ req' = Respond(r, 404, NoVal)
  /\ UNCHANGED <<redisUp, cache, lastCall, projects, members, users, qvars, mvars>>

\* `queueManager.addJob(...)` on the module object: the module exports no
\* addJob, so the call throws and the catch block answers 500.
TaskEnqueue(r) ==
  /\ req[r].op \in TaskMutations
  /\ req[r].pc = "enqueue"
  /\ req' = IF "addJob" \in ModuleExports
            THEN [Respond(r, IF req[r].op = "createTask" THEN 201 ELSE 200, NoVal)
                    EXCEPT ![r].jobs = {"addJob"}]
            ELSE Respond(r, 500, NoVal)
  /\ UNCHANGED <<redisUp, cache, lastCall, projects, members, tasks, users, qvars, mvars>>

NextCache ==
  \/ \E r \in 1 .. MaxReqs, i \in IssuedRequests : Start(r, i[1], i[2], i[3])
  \/ \E r \in ReqIds : Authenticate(r)
  \/ \E r \in ReqIds : GetProjectCacheRead(r)
  \/ \E r \in ReqIds : GetProjectLoad(r)
  \/ \E r \in ReqIds : GetProjectCacheWrite(r)
  \/ \E r \in ReqIds : GetProjectStatsCacheRead(r)
  \/ \E r \in ReqIds : GetProjectStatsCompute(r)
  \/ \E r \in ReqIds : GetProfileCacheRead(r)
  \/ \E r \in ReqIds : GetProfileLoad(r)
  \/ \E r \in ReqIds : GetProfileCacheWrite(r)
  \/ \E r \in ReqIds : UpdateProjectWrite(r)
  \/ \E r \in ReqIds : UpdateProjectInvalidate(r)
  \/ \E r \in ReqIds, ok \in BOOLEAN : UpdateProjectNotify(r, ok)
  \/ \E r \in ReqIds : DeleteProjectDestroy(r)
  \/ \E r \in ReqIds : DeleteProjectInvalidate(r)
  \/ \E r \in ReqIds : AddMemberCreate(r)
  \/ \E r \in ReqIds, ok \in BOOLEAN : AddMemberNotify(r, ok)
  \/ \E r \in ReqIds : AddMemberInvalidate(r)
  \/ \E r \in ReqIds : RemoveMemberDestroy(r)
  \/ \E r \in ReqIds, ok \in BOOLEAN : RemoveMemberNotify(r, ok)
  \/ \E r \in ReqIds : RemoveMemberInvalidate(r)
  \/ \E r \in ReqIds : UpdateProfileWrite(r)
  \/ \E r \in ReqIds : UpdateProfileInvalidate(r)
  \/ \E r \in ReqIds, pwOk \in BOOLEAN : ChangePasswordWrite(r, pwOk)
  \/ \E r \in ReqIds : ChangePasswordInvalidate(r)
  \/ \E r \in ReqIds : CreateTaskWrite(r)
  \/ \E r \in ReqIds : UpdateTaskWrite(r)
  \/ \E r \in ReqIds : PartialUpdateTaskWrite(r)
  \/ \E r \in ReqIds : AssignTaskWrite(r)
  \/ \E r \in ReqIds : UpdateTaskStatusWrite(r)
  \/ \E r \in ReqIds : DeleteTaskWrite(r)
  \/ \E r \in ReqIds : TaskEnqueue(r)
  \/ ToggleRedis
  \/ \E k \in Keys : ExpireKey(k)

\* getProject and updateProject of one project by its owner, in progress at
\* the same time, with Redis available; the project's key may expire.
RaceOps == {"getProject", "updateProject"}

NextRace ==
  \/ \E r \in ReqIds, op \in RaceOps, p \in Projects : Start(r, op, Owner(p), Owner(p))
  \/ \E r \in ReqIds : Authenticate(r)
  \/ \E r \in ReqIds : GetProjectCacheRead(r)
  \/ \E r \in ReqIds : GetProjectLoad(r)
  \/ \E r \in ReqIds : GetProjectCacheWrite(r)
  \/ \E r \in ReqIds : UpdateProjectWrite(r)
  \/ \E r \in ReqIds : UpdateProjectInvalidate(r)
  \/ \E r \in ReqIds, ok \in BOOLEAN : UpdateProjectNotify(r, ok)
  \/ \E p \in Projects : ExpireKey(ProjectKey(p))

\* Every handler has answered.
NoRequestInProgress == \A r \in ReqIds : req[r].pc \in {"idle", "done"}

\* getProjects and the project mutations, one request at a time, with
\* Redis available and the queue accepting every job; a cached list may
\* expire.
ListRequests ==
  {<<op, actor, target>> \in (ListReads \cup ProjectMutations) \X Users \X Users :
     op \notin {"addMember", "removeMember"} => target = actor}

NextList ==
  \/ \E r \in 1 .. MaxReqs, i \in ListRequests : Start(r, i[1], i[2], i[3])
  \/ \E r \in ReqIds : Authenticate(r)
  \/ \E r \in ReqIds : GetProjectsCacheRead(r)
  \/ \E r \in ReqIds : GetProjectsLoad(r)
  \/ \E r \in ReqIds : GetProjectsCacheWrite(r)
  \/ \E r \in ReqIds : UpdateProjectWrite(r)
  \/ \E r \in ReqIds : UpdateProjectInvalidate(r)
  \/ \E r \in ReqIds : UpdateProjectNotify(r, TRUE)
  \/ \E r \in ReqIds : DeleteProjectDestroy(r)
  \/ \E r \in ReqIds : DeleteProjectInvalidate(r)
  \/ \E r \in ReqIds : AddMemberCreate(r)
  \/ \E r \in ReqIds : AddMemberNotify(r, TRUE)
  \/ \E r \in ReqIds : AddMemberInvalidate(r)
  \/ \E r \in ReqIds : RemoveMemberDestroy(r)
  \/ \E r \in ReqIds : RemoveMemberNotify(r, TRUE)
  \/ \E r \in ReqIds : RemoveMemberInvalidate(r)
  \/ \E u \in Users : ExpireKey(ListKey(u))

\* The session requests alone: login, logout and changePassword of one
\* user, with Redis failing and keys expiring at any moment.
NextSession ==
  \/ \E r \in 1 .. MaxReqs, op \in SessionOps, t \in Tokens : StartSession(r, op, t)
  \/ \E r \in ReqIds : Authenticate(r)
  \/ \E r \in ReqIds, credOk \in BOOLEAN : LoginCheck(r, credOk)
  \/ \E r \in ReqIds : LoginSession(r)
  \/ \E r \in ReqIds : LoginCacheWrite(r)
  \/ \E r \in ReqIds : LogoutBlacklist(r)
  \/ \E r \in ReqIds : LogoutDeleteSession(r)
  \/ \E r \in ReqIds : LogoutInvalidate(r)
  \/ \E r \in ReqIds, pwOk \in BOOLEAN : ChangePasswordWrite(r, pwOk)
  \/ \E r \in ReqIds : ChangePasswordInvalidate(r)
  \/ ToggleRedis
  \/ \E u \in Users : \E k \in UserKeys(u) : ExpireKey(k)
  \/ HalfSecond

\* ---------------------------------------------------------- specifications

\* The state after the modules are loaded: empty queues, idle workers, an
\* empty cache and the store's rows.
Init == QueueInit /\ CacheInit /\ MonInit /\ NxInit /\ SigInit /\ ClockInit

SpecQueue == Init /\ [][NextQueue]_vars

SpecAdd == Init /\ [][NextAdd]_vars

\* Any add method adds the first job, with or without a delay; a later job
\* is added by addJob('cleanupTaskData') without one.
EnqueueLive(c, d) ==
  /\ nextId = 1 \/ (c = "addJob:cleanupTaskData" /\ d = 0)
  /\ Enqueue(c, d)

NextLive ==
  \/ \E c \in AddCalls, d \in IssuedDelays : EnqueueLive(c, d)
  \/ \E c \in AddCalls : EnqueueUnknown(c)
  \/ \E q \in QueueNames : \E w \in Workers(q) : Claim(q, w)
  \/ \E q \in QueueNames : \E w \in Workers(q) : Complete(q, w)
  \/ \E q \in QueueNames : \E w \in Workers(q) : Fail(q, w)
  \/ \E q \in QueueNames : \E j \in JobIds : Promote(q, j)
  \/ Tick

SpecLive == Init /\ [][NextLive]_vars /\ QueueFairness

SpecHandlers == Init /\ [][NextHandlers]_vars

SpecStall == Init /\ [][NextStall]_vars

SpecStallFair == Init /\ [][NextStall]_vars /\ StallFairness

SpecStats == Init /\ [][NextStats]_vars

SpecShutdown == Init /\ [][NextShutdown]_vars

SpecHistory == Init /\ [][NextHistory]_vars

SpecCM == Init /\ [][NextCM]_vars

SpecSetNx == Init /\ [][NextSetNx]_vars

SpecSession == Init /\ [][NextSession]_vars

SpecCache == Init /\ [][NextCache]_vars

SpecRace == Init /\ [][NextRace]_vars

SpecList == Init /\ [][NextList]_vars

\* ===================================================================== claims

\* The state of a job that is in exactly one collection.
StateOf(j) == CHOOSE s \in StatesOf(j) : TRUE

ActiveOfName(n) == {j \in JobIds : InActive(j) /\ job[j].name = n}

\* C1 (as claimed): for each job name, the jobs of that name that are active
\* at once never exceed the concurrency number of that name's registration.
C1_PerNameConcurrency ==
  \A n \in JobNames : Cardinality(ActiveOfName(n)) <= RegisteredConcurrency(n)

\* C2: a waiting job is taken by at most one worker: no two workers of a
\* queue hold the same job id, a held job is active and no longer waiting,
\* and every active job is held by a worker.
C2_AtomicClaim ==
  \A q \in QueueNames :
    /\ \A w1, w2 \in Workers(q) :
         (w1 # w2 /\ worker[q][w1] # 0) => worker[q][w1] # worker[q][w2]
    /\ \A w \in Workers(q) :
         worker[q][w] # 0 => (worker[q][w] \in active[q] /\ ~InWait(worker[q][w]))
    /\ \A j \in active[q] : \E w \in Workers(q) : worker[q][w] = j

\* C2 witness: two workers of one queue execute two different jobs at once.
C2_Witness ==
  \E q \in QueueNames : \E w1, w2 \in Workers(q) :
    w1 # w2 /\ worker[q][w1] # 0 /\ worker[q][w2] # 0

AllowedTransitions ==
  { <<"waiting", "active">>, <<"active", "completed">>, <<"active", "delayed">>,
    <<"delayed", "waiting">>, <<"active", "failed">> }

C4_ExhaustedStaysFailed ==
  /\ [](\A j \in JobIds :
          /\ job[j].runs <= Attempts
          /\ InFailed(j) => /\ job[j].runs = Attempts
                            /\ job[j].attemptsMade = Attempts
                            /\ StatesOf(j) = {"failed"})
  /\ [][\A j \in JobIds : InFailed(j) => (StatesOf(j)' = {"failed"} \/ ~Exists(j)')]_vars

\* C4 witness: a job has failed three times and lies in failed.
C4_Witness == \E j \in JobIds : InFailed(j) /\ job[j].runs = 3

\* C5: after two failed attempts the job is not given up (it is retried a
\* third time), and a job completed after two failures has run three times.
C5_ThirdAttemptCompletes ==
  \A j \in JobIds :
    /\ (Exists(j) /\ job[j].attemptsMade = 2) => ~InFailed(j)
    /\ (InCompleted(j) /\ job[j].attemptsMade = 2) => job[j].runs = 3

\* C5 witness: a job failed twice and completed on its third run.
C5_Witness ==
  \E j \in JobIds : InCompleted(j) /\ job[j].attemptsMade = 2 /\ job[j].runs = 3

\* C6 (as claimed): the backoff after the n-th failure is base * 2^(n-1),
\* i.e. 2000 ms after the first and 4000 ms after the second failure.
C6_BackoffDoubles ==
  \A j \in JobIds :
    (Exists(j) /\ job[j].attemptsMade \in {1, 2}) =>
      job[j].backoff = BackoffBase * Pow2(job[j].attemptsMade - 1)

\* C6 (amended): a failed job is delayed for retry only while attemptsMade <
\* Attempts; the backoff is 2000 ms after the first failure and 6000 ms after
\* the second ((2^n - 1) * base), so the delays strictly increase; a job is
\* waiting or active only once its delay has fully elapsed.
C6_Backoff ==
  \A j \in JobIds :
    Exists(j) =>
      /\ (InDelayed(j) /\ job[j].attemptsMade >= 1) => job[j].attemptsMade < Attempts
      /\ job[j].attemptsMade = 1 => job[j].backoff = 2000
      /\ job[j].attemptsMade >= 2 => job[j].backoff = 6000
      /\ (InWait(j) \/ InActive(j)) => job[j].dueIn = 0
      /\ InDelayed(j) => job[j].dueIn <= job[j].backoff + BackoffBase

\* C6 witness: a job that failed twice is active again, its 6000 ms over.
C6_Witness ==
  \E j \in JobIds : InActive(j) /\ job[j].attemptsMade = 2 /\ job[j].backoff = 6000

\* The keys a finished mutation's invalidation is responsible for.
InvalidationSet(r) ==
  IF req[r].op \in ProjectMutations THEN ProjectKeys(req[r].proj) ELSE UserKeys(req[r].actor)

\* A project or user mutation whose store write committed has answered.
MutationAnswered(r) ==
  /\ req[r].pc = "done"
  /\ req[r].committed
  /\ req[r].op \in ProjectMutations \cup UserMutations

\* C7 (as stated): with the cache reachable, once a project mutation
\* (updateProject, deleteProject, addMember, removeMember) or a user mutation
\* (updateProfile, changePassword) has committed and answered, every key of
\* the entity's invalidation set is absent from the cache, so the next read
\* misses and reloads from the store.
C7_MissAfterMutation ==
  \A r \in ReqIds :
    (MutationAnswered(r) /\ redisUp /\ req[r].inv # "failed")
      => \A k \in InvalidationSet(r) : ~cache[k].present

\* C8 (as stated): after a task mutation has committed, a getProject that
\* answers 200 for the task's project returns the project's tasks as the
\* store holds them, never a value computed before the mutation.
C8_NoStaleTaskView ==
  \A r \in ReqIds :
    (req[r].pc = "done" /\ req[r].op = "getProject" /\ req[r].status = 200
       /\ projects[req[r].proj].exists)
      => req[r].ret.task = TaskView(req[r].proj)

\* C9 (as stated): every handler that mutates a project or a user has
\* called the entity's cache invalidation, and the call has returned, after
\* the store write and before the response is sent.
C9_InvalidatedBeforeResponse ==
  \A r \in ReqIds : MutationAnswered(r) => req[r].inv # "none"

\* C10: no CacheManager operation throws because of Redis (getOrSet throws
\* only an error of the caller's fallback). A call during which a Redis
\* command failed returns the operation's fallback value: null for get and
\* increment, false for set, del, delMultiple, exists and setIfNotExists,
\* {count: 0, limit, remaining: limit, resetTime: 0} for checkRateLimit; and
\* a get of a missing key returns null.
C10_NeverThrows ==
  /\ lastCall.op # "getOrSet" => lastCall.out.outcome = "returned"
  /\ (lastCall.op = "getOrSet" /\ lastCall.out.outcome = "threw") => lastCall.calls = 2
  /\ lastCall.failed =>
       /\ lastCall.op \in {"get", "increment"} => lastCall.out.res.t = "null"
       /\ lastCall.op \in {"set", "del", "delMultiple", "exists", "setIfNotExists"} =>
            lastCall.out.res.t = "bool" /\ lastCall.out.res.b = FALSE
       /\ lastCall.op = "checkRateLimit" =>
            /\ lastCall.out.res.t = "rate"
            /\ lastCall.out.res.n = 0
            /\ lastCall.out.res.limit = lastCall.limit
            /\ lastCall.out.res.rem = lastCall.limit
            /\ lastCall.out.res.reset = 0
  /\ (lastCall.op = "get" /\ lastCall.missing) => lastCall.out.res.t = "null"

\* A checkRateLimit call lost the connection on an existing counter and
\* answered with the permissive result.
C10_Witness ==
  /\ lastCall.op = "checkRateLimit"
  /\ lastCall.failed
  /\ ~lastCall.missing
  /\ lastCall.limit = MaxCount
  /\ lastCall.out.res.rem = MaxCount

\* C11: getOrSet with a fallback that returns. On a hit it returns the
\* cached value, does not call fallback and leaves the cache as it is. On a
\* miss, and when Redis is unreachable, it calls fallback once and returns
\* its result; the result is stored under the key with the ttl exactly when
\* it is neither null nor undefined (and Redis accepts the write).
C11_GetOrSet ==
  [][\A k \in CMKeys, f \in FallbackOutcomes, drop \in 0 .. 2 :
       (~f.throws /\ lastCall'.op = "getOrSet" /\ CallGetOrSet(k, f, FallbackThrows, drop)) =>
         LET readable == redisUp /\ drop >= 1
             writable == redisUp /\ drop >= 2
         IN  IF readable /\ cache[k].present
             THEN /\ lastCall'.calls = 0
                  /\ lastCall'.out.outcome = "returned"
                  /\ lastCall'.out.res.t = "value"
                  /\ lastCall'.out.res.v = Parsed(cache[k])
                  /\ cache' = cache
             ELSE /\ lastCall'.calls = 1
                  /\ lastCall'.out.outcome = "returned"
                  /\ lastCall'.out.res.t = (IF f.v.kind = "null" THEN "null" ELSE "value")
                  /\ lastCall'.out.res.v = f.v
                  /\ cache' = IF writable /\ f.v.kind \notin {"null", "undefined"}
                              THEN [cache EXCEPT ![k] =
                                      [present |-> TRUE, enc |-> "json", v |-> f.v, n |-> 0,
                                       ttl |-> DefaultTtl]]
                              ELSE cache
    ]_vars

\* A getOrSet missed, called fallback once and stored its result.
C11_Witness ==
  /\ lastCall.op = "getOrSet"
  /\ lastCall.missing
  /\ lastCall.calls = 1
  /\ ~lastCall.failed
  /\ lastCall.out.res.t = "value"
  /\ cache[UserKey("u1")].present
  /\ cache[UserKey("u1")].v = lastCall.out.res.v

\* C12 (as stated): a request with a valid token is never answered 401
\* because Redis is unreachable, and getProject and getProfile answer 200
\* (or 404 for a project that does not exist) whatever the state of Redis.
C12_NoFailureFromCache ==
  \A r \in ReqIds :
    (req[r].pc = "done" /\ req[r].op \in {"getProject", "getProfile"})
      => /\ req[r].err # "redis"
         /\ req[r].status \in {200, 404}

\* C13: getQueueStats is read-only. Every step of a getQueueStats call, also
\* between steps of enqueues and workers, leaves every queue as it is: no
\* job is added, removed or moved and no job's fields change.
C13_StatsReadOnly ==
  [][mon' # mon =>
       /\ job' = job
       /\ nextId' = nextId
       /\ wait' = wait /\ active' = active /\ delayed' = delayed
       /\ completed' = completed /\ failed' = failed
       /\ worker' = worker]_vars

\* A call is in progress, has read the analytics queue, and that queue has
\* changed since: the call runs concurrently with enqueues and workers.
C13_Witness ==
  /\ mon.pc = "reading"
  /\ mon.stats["analytics"].read
  /\ mon.stats["analytics"] # Counts("analytics")
  /\ \E j \in JobIds : job[j].queue = "analytics" /\ job[j].attemptsMade > 0

\* C14 (as stated): a getQueueStats call that has ended has produced an
\* entry for each of the five queues, also when reading one queue failed.
C14_EntryForEveryQueue ==
  mon.pc \in {"returned", "threw"} => \A q \in QueueNames : mon.stats[q].read

\* C15: an add call without delay returns the job, with its id, in the
\* step that records the job on the wait list of its queue. That step runs
\* no handler: no worker takes a job and no job is finished in it. A call
\* that has returned says nothing about the handler: the job it returned
\* may be waiting, active, delayed for a retry, completed or failed.
C15_AddReturnsAtOnce ==
  [][nextId' # nextId =>
       LET id == nextId
       IN  /\ nextId' = nextId + 1
           /\ lastAdd'.outcome = "returned"
           /\ lastAdd'.id = id
           /\ ~Exists(id)
           /\ job'[id].runs = 0 /\ job'[id].attemptsMade = 0 /\ job'[id].finished = "no"
           /\ job'[id].dueIn = 0 =>
                /\ wait'[job'[id].queue] = Append(wait[job'[id].queue], id)
                /\ delayed' = delayed
           /\ \A j \in JobIds \ {id} : job'[j] = job[j]
           /\ worker' = worker /\ active' = active
           /\ completed' = completed /\ failed' = failed]_vars

\* The last add call has returned its job while that job is still waiting
\* and another job is being handled.
C15_Witness ==
  /\ lastAdd.outcome = "returned"
  /\ lastAdd.id = MaxJobs
  /\ InWait(lastAdd.id)
  /\ job[lastAdd.id].runs = 0
  /\ \E j \in JobIds : InActive(j)

\* C16 (as stated): an active job whose worker died is detected as stalled
\* and returned to waiting, every time.
C16_StalledBackToWaiting ==
  [][\A j \in JobIds : (Orphan(j) /\ ~Orphan(j)') => InWait(j)']_vars

\* C16: an active job whose worker died does not stay active forever. The
\* first time it is found stalled it is put at the head of the wait list,
\* from where it is executed again; found stalled a second time it is
\* moved to failed, without a retry.
C16_StalledRecovered ==
  /\ \A j \in JobIds : Orphan(j) ~> ~InActive(j)
  /\ [][\A j \in JobIds :
          (Orphan(j) /\ ~Orphan(j)') =>
            /\ job'[j].stalled = job[j].stalled + 1
            /\ job'[j].attemptsMade = job[j].attemptsMade
            /\ IF job[j].stalled = 0
               THEN /\ InWait(j)'
                    /\ Head(wait'[job[j].queue]) = j
               ELSE /\ InFailed(j)'
                    /\ job'[j].finished = "failed"]_vars

\* A job stalled once, was executed again and completed.
C16_Witness ==
  \E j \in JobIds :
    /\ job[j].stalled = 1
    /\ job[j].runs = 2
    /\ job[j].finished = "completed"

\* C17: a handler that throws and a handler that rejects give the same
\* step. The step counts the attempt and moves the job to delayed (for a
\* retry) or to failed; it frees the worker, and leaves every other worker,
\* every wait list and every other job as they were, so that a waiting job
\* of any queue can still be claimed whenever a worker of its queue is
\* free.
C17_FailureContained ==
  /\ [][\A q \in QueueNames : \A w \in Workers(q) :
          /\ HandlerFails(q, w, "threw") <=> HandlerFails(q, w, "rejected")
          /\ HandlerFails(q, w, "threw") =>
               LET id == worker[q][w]
               IN  /\ job'[id].attemptsMade = job[id].attemptsMade + 1
                   /\ IF job[id].attemptsMade + 1 < Attempts
                      THEN /\ id \in delayed'[q]
                           /\ failed' = failed
                      ELSE /\ failed'[q] # <<>>
                           /\ failed'[q][Len(failed'[q])] = id
                           /\ job'[id].finished = "failed"
                   /\ id \notin active'[q]
                   /\ worker' = [worker EXCEPT ![q][w] = 0]
                   /\ wait' = wait
                   /\ completed' = completed
                   /\ \A p \in QueueNames \ {q} :
                        active'[p] = active[p] /\ delayed'[p] = delayed[p]
                          /\ failed'[p] = failed[p]
                   /\ \A j \in JobIds \ {id} : Exists(j)' => job'[j] = job[j]]_vars
  /\ [](\A q \in QueueNames :
          (wait[q] # <<>> /\ \E w \in Workers(q) : worker[q][w] = 0)
            => ENABLED (\E w \in Workers(q) : Claim(q, w)))

\* A job has failed, and a later job of another name on the same queue has
\* been claimed and completed.
C17_Witness ==
  \E a \in JobIds, b \in JobIds :
    /\ a < b
    /\ job[a].queue = job[b].queue
    /\ job[a].name # job[b].name
    /\ job[a].attemptsMade >= 1
    /\ job[b].finished = "completed"

\* C18: running a handler twice with the same payload leaves the store as
\* running it once does, whatever the project rows were: no handler writes
\* to the store, so updateProjectStats in particular accumulates nothing;
\* and a step in which a job completes leaves every row of the store as it
\* was, also when it is the job's second run.
ProjectStores == [Projects -> [exists : BOOLEAN, ver : 0 .. MaxVer]]

Least(a, b) == IF a < b THEN a ELSE b

KeptNewest(old, new, cap) ==
  new # old =>
    \E id \in JobIds :
      LET all == Append(old, id)
      IN  /\ Len(new) = Least(Len(all), cap)
          /\ \A i \in 1 .. Len(new) : new[i] = all[Len(all) - Len(new) + i]
          /\ Len(old) = cap => job'[old[1]] = NoJob

C19_BoundedHistory ==
  /\ RemoveOnComplete = 10 /\ RemoveOnFail = 5
  /\ [](\A q \in QueueNames :
          /\ Len(completed[q]) <= 10 /\ Counts(q).completed <= 10
          /\ Len(failed[q]) <= 5 /\ Counts(q).failed <= 5)
  /\ [][\A q \in QueueNames :
          /\ KeptNewest(completed[q], completed'[q], RemoveOnComplete)
          /\ KeptNewest(failed[q], failed'[q], RemoveOnFail)]_vars

\* A queue whose completed history is full after its oldest entry has been
\* evicted.
C19_Witness ==
  \E q \in QueueNames :
    /\ Len(completed[q]) = RemoveOnComplete
    /\ \E j \in JobIds : j < completed[q][1] /\ j < nextId /\ ~Exists(j)

\* C20: whenever logout or changePassword has answered with success, the
\* entry session:{userId} of that user is absent from the cache and
\* getUserSession(userId) returns null, until a login writes it again.
C20_SessionGoneAfterLogout ==
  \A r \in ReqIds :
    (req[r].pc = "done" /\ req[r].op \in {"logout", "changePassword"} /\ req[r].status = 200)
      => /\ ~cache[SessionKey(req[r].actor)].present
         /\ CMGet(cache, SessionKey(req[r].actor), redisUp).out.res = RNull

\* C29: a key created by setIfNotExists never exists without a time to
\* live (the keys holding JSON text are created by set, getOrSet and
\* setIfNotExists only), and a setIfNotExists call that found the key
\* missing and created it returned true.
C29_CreatedWithExpiry ==
  /\ \A k \in CMKeys :
       (cache[k].present /\ cache[k].enc = "json") => cache[k].ttl # NoExpiry
  /\ (lastCall.op = "setIfNotExists" /\ lastCall.missing
        /\ \E k \in CMKeys : cache[k].present /\ cache[k].ttl = NoExpiry
                               /\ cache[k].enc = "json")
       => lastCall.out.res.b

\* C30: a getOrSet call invokes fallback at most once, also when fallback
\* throws on a cache miss.
C30_FallbackAtMostOnce ==
  lastCall.op = "getOrSet" => lastCall.calls <= 1

\* C21: setIfNotExists creates atomically. Among the calls made for a key,
\* concurrent ones included, at most one returns true, and the stored
\* value is the value of the call that returned true; when the key exists,
\* no call for it is in progress and no Redis command for it has failed,
\* exactly one call has returned true. A call for a key that exists
\* returns false and leaves the stored value unchanged.
Winners(k) == {c \in Callers : k \in nx[c].won}

C21_AtomicCreate ==
  /\ [](\A k \in NxKeys :
          /\ Cardinality(Winners(k)) <= 1
          /\ \A c \in Winners(k) : cache[k].present /\ cache[k].v = NxValue(c)
          /\ ( /\ cache[k].present
               /\ \A c \in Callers : k \notin nx[c].lost
               /\ \A c \in Callers : ~(nx[c].pc = "expire" /\ nx[c].key = k) )
             => Cardinality(Winners(k)) = 1)
  /\ [][\A c \in Callers, k \in NxKeys :
          ( /\ nx[c].pc # "expire" /\ nx'[c] # nx[c] /\ nx'[c].key = k
            /\ cache[k].present )
          => nx'[c].ret = "false" /\ nx'[c].pc = "done" /\ cache'[k] = cache[k]]_vars

\* Both callers have called for the same key without any failure: one call
\* returned true, the other false.
C21_Witness ==
  \E k \in NxKeys :
    /\ nx["a"].pc = "done" /\ nx["a"].key = k /\ nx["b"].pc = "done" /\ nx["b"].key = k
    /\ k \in nx["b"].won /\ nx["a"].ret = "false"
    /\ \A c \in Callers : nx[c].lost = {}

C26_MembershipInvalidated ==
  \A r \in ReqIds :
    (req[r].pc = "done" /\ req[r].op \in {"addMember", "removeMember"} /\ req[r].committed)
      => req[r].inv \in {"ok", "failed"}

\* C25: a task request that answers with an error status has not changed
\* the task store; when its store write has committed, its jobs have been
\* enqueued through addJob and it answers with success.
C25_TaskErrorLeavesStore ==
  \A r \in ReqIds :
    (req[r].pc = "done" /\ req[r].op \in TaskMutations)
      => /\ req[r].status >= 400 => ~req[r].committed
         /\ req[r].committed => req[r].jobs = {"addJob"} /\ req[r].status \in {200, 201}

\* C28: a token that logout has succeeded for and that has not expired is
\* blacklisted: its entry blacklist:{token} exists as long as the token
\* lives, every request bearing it is answered 401 by authenticate, and
\* logout has written the entry before it clears the session and the user
\* cache.
C28_LoggedOutTokenRejected ==
  /\ [](\A t \in clock.loggedOut : TokenValid(t) => cache[BlacklistKey(t)].present)
  /\ [][\A r \in ReqIds :
          (req[r].pc = "auth" /\ req'[r] # req[r] /\ req[r].token \in clock.loggedOut)
            => req'[r].pc = "done" /\ req'[r].status = 401]_vars

\* C27: every job name an add method of QueueManager enqueues has a
\* processor registered on the queue the job is added to, and under fair
\* scheduling every job that was added eventually is completed or failed
\* for good.
C27_EveryJobFinishes ==
  /\ [](\A c \in AddCalls :
          AddTarget(c) # NoTarget => AddTarget(c).name \in HandlerNames(AddTarget(c).queue))
  /\ \A j \in 1 .. MaxJobs :
       Exists(j) ~> (job[j].finished \in {"completed", "failed"})

\* A job added with addSessionCleanupJob that failed twice has completed
\* on its third run, and a second job has failed for good.
C27_Witness ==
  /\ job[1].name = "cleanup-expired-sessions" /\ job[1].finished = "completed"
  /\ job[1].attemptsMade = 2
  /\ job[2].finished = "failed"

\* C23: when a getProject that missed the cache and an updateProject of
\* the same project have both finished and no request is in progress, the
\* entry project:{id} is absent or holds the store's current project; a
\* getProject that then finds the entry answers with the current project.
C23_NoStaleAfterRace ==
  /\ [](NoRequestInProgress =>
          \A p \in Projects :
            cache[ProjectKey(p)].present => Parsed(cache[ProjectKey(p)]) = ProjectJSON(p))
  /\ [][\A r \in ReqIds :
          (/\ At(r, "getProject", "cacheGet")
           /\ \A s \in ReqIds \ {r} : req[s].pc \in {"idle", "done"}
           /\ req'[r].pc = "done" /\ req'[r].hit)
            => req'[r].ret = ProjectJSON(req[r].proj)]_vars

\* C24: when updateProject, deleteProject, addMember or removeMember has
\* finished, no key getProjects caches a project list under holds a list
\* that differs from the store's, and a getProjects answered from the
\* cache returns the user's current list.
C24_ListInvalidated ==
  NoRequestInProgress =>
    /\ \A u \in Users :
         cache[ListKey(u)].present => Parsed(cache[ListKey(u)]) = ListJSON(u)
    /\ \A r \in ReqIds :
         (req[r].op = "getProjects" /\ req[r].pc = "done" /\ req[r].hit)
           => req[r].ret = ListJSON(req[r].actor)

====
